---------------------------- MODULE Spec2Model ----------------------------
(***************************************************************************)
(* Row-reconciliation engine of the Inventory programs:                    *)
(*   inventory.py  (initial scan, "scan in")                               *)
(*   scan_out.py   (scan out)                                              *)
(*   import_hr.py  (HR import)                                             *)
(* A string is a sequence of one-character strings; a cell value is a      *)
(* record [k, n, s]; a data row is a tuple of ExistingMaxCol cells; a      *)
(* sheet is the sequence of its data rows, data row i being spreadsheet    *)
(* row i + 1 (row 1 is the header).                                        *)
(***************************************************************************)
EXTENDS Integers, Sequences, FiniteSets, TLC

(***************************************************************************)
(* Bounds of the model.                                                    *)
(***************************************************************************)
MaxRows == 2
MaxEvents == 3
MaxImport == 2
MaxKeyLen == 3

(***************************************************************************)
(* Characters and strings.                                                 *)
(***************************************************************************)
LowerAlpha == <<"a","b","c","d","e","f","g","h","i","j","k","l","m",
                "n","o","p","q","r","s","t","u","v","w","x","y","z">>
UpperAlpha == <<"A","B","C","D","E","F","G","H","I","J","K","L","M",
                "N","O","P","Q","R","S","T","U","V","W","X","Y","Z">>
DigitChars == <<"0","1","2","3","4","5","6","7","8","9">>

Range(f) == {f[i] : i \in DOMAIN f}

IsLower(c) == c \in Range(LowerAlpha)
IsUpper(c) == c \in Range(UpperAlpha)
IsLetter(c) == IsLower(c) \/ IsUpper(c)
IsDigit(c) == c \in Range(DigitChars)
IsSpace(c) == c = " "

IndexIn(seq, c) == CHOOSE i \in DOMAIN seq : seq[i] = c

UpperChar(c) == IF IsLower(c) THEN UpperAlpha[IndexIn(LowerAlpha, c)] ELSE c
LowerChar(c) == IF IsUpper(c) THEN LowerAlpha[IndexIn(UpperAlpha, c)] ELSE c

\* str.upper() / str.lower()
Upper(s) == [i \in DOMAIN s |-> UpperChar(s[i])]
Lower(s) == [i \in DOMAIN s |-> LowerChar(s[i])]

\* str.strip(): drop leading and trailing whitespace
Strip(s) ==
    LET nonsp == {i \in DOMAIN s : ~IsSpace(s[i])}
    IN IF nonsp = {} THEN <<>>
       ELSE LET lo == CHOOSE i \in nonsp : \A j \in nonsp : i <= j
                hi == CHOOSE i \in nonsp : \A j \in nonsp : i >= j
            IN SubSeq(s, lo, hi)

\* str.startswith(p)
StartsWith(s, p) == Len(s) >= Len(p) /\ SubSeq(s, 1, Len(p)) = p

DigitVal(c) == IndexIn(DigitChars, c) - 1

RECURSIVE DecimalOf(_)
\* str(n) for an integer n >= 0
DecimalOf(n) ==
    IF n < 10 THEN <<DigitChars[n + 1]>>
    ELSE Append(DecimalOf(n \div 10), DigitChars[(n % 10) + 1])

RECURSIVE DigitsValue(_)
DigitsValue(s) ==
    IF s = <<>> THEN 0
    ELSE 10 * DigitsValue(SubSeq(s, 1, Len(s) - 1)) + DigitVal(s[Len(s)])

(***************************************************************************)
(* Cell values: None, an integer, a string, a date.                        *)
(***************************************************************************)
None == [k |-> "none", n |-> 0, s |-> <<>>]
IntCell(v) == [k |-> "int", n |-> v, s |-> <<>>]
StrCell(t) == [k |-> "str", n |-> 0, s |-> t]
DateCell(d) == [k |-> "date", n |-> d, s |-> <<>>]

\* date.today(): the one date the run stamps; 0 stands for an earlier date
today == DateCell(1)
Earlier == DateCell(0)

\* str(val) of a cell value read through openpyxl
PyStr(cell) ==
    CASE cell.k = "none" -> <<"N","o","n","e">>
      [] cell.k = "int" -> IF cell.n < 0 THEN <<"-">> \o DecimalOf(0 - cell.n)
                           ELSE DecimalOf(cell.n)
      [] cell.k = "str" -> cell.s
      [] OTHER -> <<"2","0","0","0","-","0","1","-","0">> \o DecimalOf(cell.n)

\* str(val) of a value of the pandas frame: an empty cell is NaN
PandasStr(cell) == IF cell.k = "none" THEN <<"n","a","n">> ELSE PyStr(cell)

\* whether int(text) succeeds: optional sign, then digits only, after strip
IntParses(t) ==
    LET u == Strip(t)
        body == IF u # <<>> /\ u[1] \in {"-", "+"} THEN Tail(u) ELSE u
    IN body # <<>> /\ \A i \in DOMAIN body : IsDigit(body[i])

IntOfText(t) ==
    LET u == Strip(t)
        neg == u # <<>> /\ u[1] = "-"
        body == IF u # <<>> /\ u[1] \in {"-", "+"} THEN Tail(u) ELSE u
    IN IF neg THEN 0 - DigitsValue(body) ELSE DigitsValue(body)

\* int(str(val)) succeeds / its value
IsIntCode(cell) == cell.k = "int" \/ (cell.k = "str" /\ IntParses(cell.s))
IntCode(cell) == IF cell.k = "int" THEN cell.n ELSE IntOfText(cell.s)


(***************************************************************************)
(* Identifier Normalizer.                                                  *)
(***************************************************************************)
NormWidth == 10

\* str.zfill(width) of a string of digits
ZFill(d, width) ==
    IF Len(d) >= width THEN d
    ELSE [i \in 1..(width - Len(d)) |-> "0"] \o d

\* a rule that keeps everything after the last letter, digit or not
normalize_KeepsSuffix(s) ==
    LET letters == {i \in DOMAIN s : IsLetter(s[i])}
        last == IF letters = {} THEN 0
                ELSE CHOOSE i \in letters : \A j \in letters : i >= j
    IN ZFill(SubSeq(s, last + 1, Len(s)), NormWidth)

\* Strict-suffix rule: the digits after the last letter, zero-padded
normalize(s) ==
    LET letters == {i \in DOMAIN s : IsLetter(s[i])}
        last == IF letters = {} THEN 0
                ELSE CHOOSE i \in letters : \A j \in letters : i >= j
        right_side == SubSeq(s, last + 1, Len(s))
        digits == SelectSeq(right_side, IsDigit)
    IN ZFill(digits, NormWidth)

\* Serial rule: "" for None, else str(val).strip().upper()
normalize_serial(cell) ==
    IF cell.k = "none" THEN <<>> ELSE Upper(Strip(PyStr(cell)))

\* sf.normalize(asset_val) if asset_val is not None else ""
AssetNorm(cell) == IF cell.k = "none" THEN <<>> ELSE normalize(PyStr(cell))

(***************************************************************************)
(* Column layout of the existing sheet and of the import sheet.            *)
(***************************************************************************)
ColA == 1
ColC == 3
ColI == 9
ColO == 15
ColX == 24
ColY == 25
ColZ == 26
ColAA == 27
ExistingMaxCol == 27
NewColB == 2
NewColN == 14

\* The bands of the sequence code
NewFloor == 50000
DupFloor == 51000
DupCeil == 52000

BlankRow == [c \in 1..ExistingMaxCol |-> None]

\* ws.max_row: the header, then the data rows
MaxRowOf(w) == Len(w) + 1

\* ws.cell(row, column).value
CellAt(w, r, c) == w[r - 1][c]

\* ws.cell(row, column, value): a row past max_row comes into being blank
SetCell(w, r, c, v) ==
    IF r - 1 <= Len(w) THEN [w EXCEPT ![r - 1][c] = v]
    ELSE Append(w, [BlankRow EXCEPT ![c] = v])

(***************************************************************************)
(* Sort/Persist stage: sort_worksheet_by_column_a.                         *)
(***************************************************************************)
\* key_func: int(val), or +inf when int() raises
KeyIsInt(row) == IsIntCode(row[ColA])
KeyInt(row) == IntCode(row[ColA])

\* key(a) <= key(b)
KeyLeq(a, b) ==
    IF KeyIsInt(b) THEN KeyIsInt(a) /\ KeyInt(a) <= KeyInt(b) ELSE TRUE

RECURSIVE InsertSorted(_, _)
\* insert row after every element whose key is <= its key (stable)
InsertSorted(sorted, row) ==
    IF sorted = <<>> THEN <<row>>
    ELSE IF KeyLeq(sorted[Len(sorted)], row) THEN Append(sorted, row)
    ELSE Append(InsertSorted(SubSeq(sorted, 1, Len(sorted) - 1), row),
                sorted[Len(sorted)])

RECURSIVE SortPrefix(_, _)
SortPrefix(w, n) ==
    IF n = 0 THEN <<>> ELSE InsertSorted(SortPrefix(w, n - 1), w[n])

\* list.sort(key=key_func): the rows in the new order
SortedRows(w) == SortPrefix(w, Len(w))

\* ws.cell(row, column, value=value): openpyxl assigns the value only when it
\* is not None, and otherwise leaves the cell holding what it held
WriteValue(old, value) == IF value = None THEN old ELSE value

\* list.sort(key=key_func), then the values written back row by row
sort_worksheet_by_column_a(w) ==
    LET data_rows == SortedRows(w)
    IN [i \in 1..Len(w) |->
          [c \in 1..ExistingMaxCol |-> WriteValue(w[i][c], data_rows[i][c])]]


(***************************************************************************)
(* State.                                                                  *)
(***************************************************************************)
VARIABLES
    mode,                  \* "scan_in", "scan_out" or "import": the program run
    ws,                    \* the in-memory sheet (data rows)
    disk,                  \* the sheet of the workbook on durable storage
    open,                  \* the run is live (scan window open / import running)
    log,                   \* the lines written to the scan window's log
    dialogs,               \* the message boxes shown so far
    report,                \* the counts of the final summary, <<>> before it
    normalized_asset_set,  \* scan: keys known to be in the inventory
    normalized_to_row,     \* scan: key -> spreadsheet row number
    scanned,               \* scan: keys scanned in this session
    next_new_seq,          \* scan: new-item stream
    next_dup_seq,          \* scan: duplicate stream
    new_items_count,
    duplicate_count,
    loc_var,               \* scan out: the text of the location box
    pc,                    \* import: the stage of run_import_inventory
    ws_new,                \* import: the data rows of the HR export
    new_max_col,           \* import: ws_new.max_column
    r,                     \* import: the row the current loop is at
    existing_map,          \* import: (asset key, serial key) -> row
    original_max_row,      \* import: ws_existing.max_row at load
    original_A_values,     \* import: row -> integer code at load
    serial_to_50xxx_row,   \* import: serial key -> 50xxx row
    matched_existing_rows, \* import: rows matched by an import row
    used_50xxx,            \* import: 50xxx codes taken
    next_50xxx,            \* import: candidate for the next 50xxx code
    import_index,          \* import: sequence number of the import rows
    matched_regular_count,
    added_from_50xxx_count,
    brand_new_count,
    removed_count,
    brand_new_items,       \* import: itemized Brand-new lines
    added_from_50xxx_items,\* import: itemized Rejoined lines
    removed_items,         \* import: itemized Removed-by-import lines
    dup_groups             \* import: the duplicate detector's report

scanIndex == <<normalized_asset_set, normalized_to_row, scanned>>
scanAlloc == <<next_new_seq, next_dup_seq, new_items_count, duplicate_count>>
scanVars == <<log, scanIndex, scanAlloc, loc_var>>
impIndex == <<existing_map, original_max_row, original_A_values,
              serial_to_50xxx_row>>
impCounts == <<matched_regular_count, added_from_50xxx_count, brand_new_count,
               removed_count>>
impItems == <<brand_new_items, added_from_50xxx_items, removed_items>>
impVars == <<pc, ws_new, new_max_col, r, impIndex, matched_existing_rows,
             used_50xxx, next_50xxx, import_index, impCounts, impItems,
             dup_groups>>
vars == <<mode, ws, disk, open, dialogs, report, scanVars, impVars>>

(***************************************************************************)
(* Strings and rows the bounded runs draw from.                            *)
(***************************************************************************)
S_AB000123 == <<"A","B","0","0","0","1","2","3">>
S_ab_000123 == <<"a","b","-","0","0","0","1","2","3">>
S_Y6 == <<"Y","6">>
S_Q9 == <<"Q","9">>
S_zz == <<"z","z">>
S_NA == <<"N","/","A">>
S_Done == <<"D","o","n","e">>
S_done == <<"d","o","n","e">>
S_blank == <<" ">>
S_Out == <<"O","u","t">>
S_SHR == <<"S","H","R",":">>
S_12 == <<" ","1","2">>
S_shr_7 == <<"s","h","r",":"," ","7">>

\* a row of the existing sheet: code, display name, identifier, location
ScanRow(a, b, c, i) ==
    [BlankRow EXCEPT ![ColA] = a, ![2] = StrCell(b), ![ColC] = c, ![ColI] = i,
                     ![ColZ] = Earlier, ![ColAA] = Earlier]

\* rows a scanned sheet may hold at load, in sorted order
ScanRowPool ==
    << ScanRow(IntCell(7), <<"r","1">>, StrCell(S_AB000123), None),
       ScanRow(IntCell(50999), <<"r","2">>, StrCell(S_Y6), StrCell(S_shr_7)),
       ScanRow(IntCell(51000), <<"r","3">>, StrCell(S_NA), None),
       ScanRow(IntCell(51999), <<"r","4">>, StrCell(S_ab_000123), None),
       ScanRow(None, <<"r","5">>, None, None) >>

RECURSIVE PickRows(_, _, _)
\* the subsequence of pool at the positions in idx
PickRows(pool, idx, n) ==
    IF n = 0 THEN <<>>
    ELSE IF n \in idx THEN Append(PickRows(pool, idx, n - 1), pool[n])
    ELSE PickRows(pool, idx, n - 1)

SheetsOf(pool, maxrows) ==
    {PickRows(pool, idx, Len(pool)) :
        idx \in {x \in SUBSET (1..Len(pool)) : Cardinality(x) <= maxrows}}

ScanSheets == SheetsOf(ScanRowPool, MaxRows)

\* what the user may type into the code box, and into the location box
ScanEntries == {S_ab_000123, S_Q9, S_zz, S_Done, S_blank}
Locations == {<<>>, S_12}

(***************************************************************************)
(* Scan sessions: what run_initial_inventory / run_scan_out build at load. *)
(***************************************************************************)
\* df_inventory["Normalized"]
NormalizedColumn(w) == [i \in 1..Len(w) |-> normalize(PandasStr(w[i][ColC]))]

\* normalized_to_row: a later row with the same key overwrites an earlier one
BuildNormalizedToRow(w) ==
    LET col == NormalizedColumn(w)
    IN [k \in Range(col) |->
          (CHOOSE i \in 1..Len(w) :
              col[i] = k /\ \A j \in 1..Len(w) : col[j] = k => j <= i) + 1]

\* a variant that starts every stream at the floor of its band
StartSeq_Floor(w, floor, ceil) == floor

\* a stream that starts at the first number of the band no row carries
StartSeq_FirstGap(w, floor, ceil) ==
    LET codes == {IntCode(w[i][ColA]) : i \in {j \in 1..Len(w) : IsIntCode(w[j][ColA])}}
    IN CHOOSE n \in floor..(floor + Len(w)) :
          n \notin codes /\ \A k \in floor..(n - 1) : k \in codes

\* the starting number of a stream: past the largest code of the band, or the floor
StartSeq(w, floor, ceil) ==
    LET codes == {IntCode(w[i][ColA]) : i \in {j \in 1..Len(w) :
                     /\ IsIntCode(w[j][ColA])
                     /\ floor <= IntCode(w[j][ColA])
                     /\ IntCode(w[j][ColA]) < ceil}}
    IN IF codes = {} THEN floor
       ELSE (CHOOSE m \in codes : \A n \in codes : n <= m) + 1

\* ASCII order of the characters in use
CharOrder == <<" ", "-", "/">> \o DigitChars \o <<":">> \o UpperAlpha \o LowerAlpha

RECURSIVE StrLeq(_, _)
StrLeq(a, b) ==
    IF a = <<>> THEN TRUE
    ELSE IF b = <<>> THEN FALSE
    ELSE IF a[1] = b[1] THEN StrLeq(Tail(a), Tail(b))
    ELSE IndexIn(CharOrder, a[1]) < IndexIn(CharOrder, b[1])

\* the location box starts at the first of the sorted "SHR:" locations of column I
InitialLocation(w) ==
    LET loc_values == {Strip(w[i][ColI].s) : i \in {j \in 1..Len(w) :
                          /\ w[j][ColI].k = "str"
                          /\ StartsWith(Upper(Strip(w[j][ColI].s)), S_SHR)}}
    IN IF loc_values = {} THEN <<>>
       ELSE CHOOSE l \in loc_values : \A m \in loc_values : StrLeq(l, m)


(***************************************************************************)
(* The start of a run: the file is selected and the workbook loaded.       *)
(***************************************************************************)
\* nothing is loaded yet: no window, no sheet in memory, no index
Unloaded ==
    /\ pc = "select"
    /\ ws = <<>>
    /\ open = FALSE
    /\ log = <<>>
    /\ dialogs = <<>>
    /\ report = <<>>
    /\ normalized_asset_set = {}
    /\ normalized_to_row = <<>>
    /\ scanned = {}
    /\ next_new_seq = 0
    /\ next_dup_seq = 0
    /\ new_items_count = 0
    /\ duplicate_count = 0
    /\ loc_var = <<>>
    /\ ws_new = <<>>
    /\ new_max_col = 0
    /\ r = 0
    /\ existing_map = <<>>
    /\ original_max_row = 0
    /\ original_A_values = <<>>
    /\ serial_to_50xxx_row = <<>>
    /\ matched_existing_rows = {}
    /\ used_50xxx = {}
    /\ next_50xxx = 0
    /\ import_index = 0
    /\ matched_regular_count = 0
    /\ added_from_50xxx_count = 0
    /\ brand_new_count = 0
    /\ removed_count = 0
    /\ brand_new_items = <<>>
    /\ added_from_50xxx_items = <<>>
    /\ removed_items = <<>>
    /\ dup_groups = <<>>

\* a scan program is started on a workbook
StartScan ==
    /\ mode \in {"scan_in", "scan_out"}
    /\ disk \in ScanSheets
    /\ Unloaded

\* the file dialog is cancelled: if not data_path: return
SelectCancelled ==
    /\ pc = "select"
    /\ pc' = "done"
    /\ UNCHANGED <<mode, ws, disk, open, dialogs, report, log, scanIndex,
                   scanAlloc, loc_var, ws_new, new_max_col, r, impIndex,
                   matched_existing_rows, used_50xxx, next_50xxx, import_index,
                   impCounts, impItems, dup_groups>>

\* reading a workbook raises: the error is shown and the run returns
LoadError ==
    /\ pc = "select"
    /\ pc' = "done"
    /\ dialogs' = Append(dialogs, "Load error")
    /\ UNCHANGED <<mode, ws, disk, open, report, log, scanIndex,
                   scanAlloc, loc_var, ws_new, new_max_col, r, impIndex,
                   matched_existing_rows, used_50xxx, next_50xxx, import_index,
                   impCounts, impItems, dup_groups>>

\* the workbook is read, the index and the streams are built, the window opens
LoadScan ==
    /\ pc = "select"
    /\ mode \in {"scan_in", "scan_out"}
    /\ ws' = disk
    /\ open' = TRUE
    /\ normalized_asset_set' = Range(NormalizedColumn(disk))
    /\ normalized_to_row' = BuildNormalizedToRow(disk)
    /\ next_new_seq' = StartSeq(disk, NewFloor, DupFloor)
    /\ next_dup_seq' = StartSeq(disk, DupFloor, DupCeil)
    /\ loc_var' = IF mode = "scan_out" THEN InitialLocation(disk) ELSE <<>>
    /\ pc' = "scan"
    /\ UNCHANGED <<mode, disk, log, dialogs, report, scanned, new_items_count,
                   duplicate_count, ws_new, new_max_col, r, impIndex,
                   matched_existing_rows, used_50xxx, next_50xxx, import_index,
                   impCounts, impItems, dup_groups>>

(***************************************************************************)
(* Scan sessions: the handlers of inventory.py.                            *)
(***************************************************************************)
LogLine(cls, code, row_num, seq) ==
    [cls |-> cls, code |-> code, row |-> row_num, seq |-> seq]

\* the events a bounded session may still take
Budget == Len(log) + Len(dialogs) < MaxEvents

\* a scan that puts its row above the others
AppendScanRow_OnTop(w, seq, code) ==
    <<[BlankRow EXCEPT ![ColA] = IntCell(seq), ![ColC] = StrCell(code),
                       ![ColZ] = today, ![ColAA] = today]>> \o w

\* a row appended by a scan: A = seq, C = the scanned code, Z / AA = today
AppendScanRow(w, seq, code) ==
    LET row_num == MaxRowOf(w) + 1
        w1 == SetCell(w, row_num, ColA, IntCell(seq))
        w2 == SetCell(w1, row_num, ColC, StrCell(code))
        w3 == SetCell(w2, row_num, ColZ, today)
    IN SetCell(w3, row_num, ColAA, today)

\* first scan of a known key: Z / AA of its row = today
StampFound(w, row_num) ==
    SetCell(SetCell(w, row_num, ColZ, today), row_num, ColAA, today)

\* a session that forgets which keys it has scanned
MarkScanned_Forgets(s, key) == s

\* scanned.add(normalized_code)
MarkScanned(s, key) == s \cup {key}

\* a save that writes nothing
SavedDisk_KeepsOld(w, old, ok) == old

\* the sort, then wb.save: written whole when it succeeds, not at all otherwise
SavedDisk(w, old, ok) == IF ok THEN w ELSE old

\* a save_and_close that leaves the window open after the save
save_and_close_StaysOpen(ok) ==
    /\ ws' = sort_worksheet_by_column_a(ws)
    /\ disk' = SavedDisk(ws', disk, ok)
    /\ report' = IF ok THEN <<Cardinality(scanned), new_items_count, duplicate_count>>
                 ELSE report
    /\ dialogs' = Append(dialogs, IF ok THEN "Inventory updated" ELSE "Save error")
    /\ open' = open
    /\ UNCHANGED <<mode, log, scanIndex, scanAlloc, loc_var, impVars>>

\* save_and_close of inventory.py; ok: whether wb.save succeeds
save_and_close(ok) ==
    /\ ws' = sort_worksheet_by_column_a(ws)
    /\ disk' = SavedDisk(ws', disk, ok)
    /\ IF ok
       THEN /\ report' = <<Cardinality(scanned), new_items_count, duplicate_count>>
            /\ dialogs' = Append(dialogs, "Inventory updated")
            /\ open' = FALSE
       ELSE /\ report' = report
            /\ dialogs' = Append(dialogs, "Save error")
            /\ open' = open
    /\ UNCHANGED <<mode, log, scanIndex, scanAlloc, loc_var, impVars>>

\* handle_scan of inventory.py; entry: the text of the code box
handle_scan(entry, ok) ==
    /\ mode = "scan_in"
    /\ open
    /\ Budget
    /\ UNCHANGED impVars
    /\ LET code == Strip(entry)
           normalized_code == normalize(code)
       IN IF code = <<>> THEN UNCHANGED vars
          ELSE IF Lower(code) = S_done THEN save_and_close(ok)
          ELSE IF normalized_code \in normalized_asset_set
          THEN IF normalized_code \in scanned
               THEN \* duplicate: a new row of the 51xxx stream
                    /\ ws' = AppendScanRow(ws, next_dup_seq, code)
                    /\ next_dup_seq' = next_dup_seq + 1
                    /\ duplicate_count' = duplicate_count + 1
                    /\ log' = Append(log, LogLine("Duplicate", code,
                                                  MaxRowOf(ws) + 1, next_dup_seq))
                    /\ UNCHANGED <<mode, disk, open, dialogs, report, scanIndex,
                                   next_new_seq, new_items_count, loc_var>>
               ELSE \* first scan of a key of the inventory
                    /\ scanned' = MarkScanned(scanned, normalized_code)
                    /\ IF normalized_code \notin DOMAIN normalized_to_row
                       THEN /\ log' = Append(log, LogLine("Unlocatable", code, 0, 0))
                            /\ ws' = ws
                       ELSE /\ ws' = StampFound(ws, normalized_to_row[normalized_code])
                            /\ log' = Append(log, LogLine("Found", code,
                                             normalized_to_row[normalized_code], 0))
                    /\ UNCHANGED <<mode, disk, open, dialogs, report,
                                   normalized_asset_set, normalized_to_row,
                                   scanAlloc, loc_var>>
          ELSE \* not in the inventory: a new row of the 50xxx stream
               /\ ws' = AppendScanRow(ws, next_new_seq, code)
               /\ next_new_seq' = next_new_seq + 1
               /\ new_items_count' = new_items_count + 1
               /\ normalized_asset_set' = normalized_asset_set \cup {normalized_code}
               /\ normalized_to_row' =
                     [k \in DOMAIN normalized_to_row \cup {normalized_code} |->
                        IF k = normalized_code THEN MaxRowOf(ws) + 1
                        ELSE normalized_to_row[k]]
               /\ scanned' = MarkScanned(scanned, normalized_code)
               /\ log' = Append(log, LogLine("New", code, MaxRowOf(ws) + 1,
                                             next_new_seq))
               /\ UNCHANGED <<mode, disk, open, dialogs, report, next_dup_seq,
                              duplicate_count, loc_var>>

\* the Finish button of inventory.py
FinishButton(ok) ==
    /\ mode = "scan_in"
    /\ open
    /\ Budget
    /\ save_and_close(ok)

\* a close_window that writes the sheet before it closes
close_window_Saves ==
    /\ mode \in {"scan_in", "scan_out"}
    /\ open
    /\ open' = FALSE
    /\ disk' = ws
    /\ UNCHANGED <<mode, ws, log, dialogs, report, scanIndex, scanAlloc,
                   loc_var, impVars>>

\* close_window: Quit All, Escape, or the window's close box
close_window ==
    /\ mode \in {"scan_in", "scan_out"}
    /\ open
    /\ open' = FALSE
    /\ UNCHANGED <<mode, ws, disk, log, dialogs, report, scanIndex, scanAlloc,
                   loc_var, impVars>>


(***************************************************************************)
(* Scan sessions: the handlers of scan_out.py.                             *)
(***************************************************************************)
\* the tag put before every location, tagged or not
normalize_shr_location_AlwaysTags(raw) ==
    LET s == Strip(raw)
    IN IF s = <<>> THEN s ELSE S_SHR \o <<" ">> \o s

\* normalize_shr_location: the "SHR:" scope tag, added when it is missing
normalize_shr_location(raw) ==
    LET s == Strip(raw)
    IN IF s = <<>> THEN s
       ELSE IF StartsWith(Upper(s), S_SHR) THEN s
       ELSE S_SHR \o <<" ">> \o s

\* a row appended by a scan out: A, C, I = loc, X = "Out", Z / AA = today
AppendScanOutRow(w, seq, code, loc) ==
    LET row_num == MaxRowOf(w) + 1
        w1 == SetCell(w, row_num, ColA, IntCell(seq))
        w2 == SetCell(w1, row_num, ColC, StrCell(code))
        w3 == SetCell(w2, row_num, ColI, StrCell(loc))
        w4 == SetCell(w3, row_num, ColX, StrCell(S_Out))
        w5 == SetCell(w4, row_num, ColZ, today)
    IN SetCell(w5, row_num, ColAA, today)

\* first scan out of a known key: Z / AA = today, X = "Out", I = loc
StampFoundOut(w, row_num, loc) ==
    LET w1 == SetCell(w, row_num, ColZ, today)
        w2 == SetCell(w1, row_num, ColAA, today)
        w3 == SetCell(w2, row_num, ColX, StrCell(S_Out))
    IN SetCell(w3, row_num, ColI, StrCell(loc))

\* save_and_close of scan_out.py; ok: whether wb.save succeeds
save_and_close_out(ok) ==
    /\ ws' = sort_worksheet_by_column_a(ws)
    /\ disk' = SavedDisk(ws', disk, ok)
    /\ IF ok
       THEN /\ report' = <<Cardinality(scanned), new_items_count, duplicate_count>>
            /\ dialogs' = Append(dialogs, "Scan OUT updated")
            /\ open' = FALSE
       ELSE /\ report' = report
            /\ dialogs' = Append(dialogs, "Save error")
            /\ open' = open
    /\ UNCHANGED <<mode, log, scanIndex, scanAlloc, impVars>>

\* a scan out that never asks for the location
LocationMissing_NeverAsked(raw_loc) == FALSE

\* whether handle_scan of scan_out.py turns the event away: no location given
LocationMissing(raw_loc) == Strip(raw_loc) = <<>>

\* handle_scan of scan_out.py; entry: the text of the code box
handle_scan_out(entry, ok) ==
    /\ mode = "scan_out"
    /\ open
    /\ Budget
    /\ UNCHANGED impVars
    /\ LET code == Strip(entry)
           raw_loc == Strip(loc_var)
           loc == normalize_shr_location(raw_loc)
           normalized_code == normalize(code)
       IN IF code = <<>> THEN UNCHANGED vars
          ELSE IF LocationMissing(loc_var)
          THEN /\ dialogs' = Append(dialogs, "Location required")
               /\ UNCHANGED <<mode, ws, disk, open, log, report, scanIndex,
                              scanAlloc, loc_var>>
          ELSE IF Lower(code) = S_done
          THEN save_and_close_out(ok) /\ loc_var' = loc
          ELSE IF normalized_code \in normalized_asset_set
          THEN IF normalized_code \in scanned
               THEN /\ ws' = AppendScanOutRow(ws, next_dup_seq, code, loc)
                    /\ next_dup_seq' = next_dup_seq + 1
                    /\ duplicate_count' = duplicate_count + 1
                    /\ log' = Append(log, LogLine("Duplicate", code,
                                                  MaxRowOf(ws) + 1, next_dup_seq))
                    /\ loc_var' = loc
                    /\ UNCHANGED <<mode, disk, open, dialogs, report, scanIndex,
                                   next_new_seq, new_items_count>>
               ELSE /\ scanned' = MarkScanned(scanned, normalized_code)
                    /\ IF normalized_code \notin DOMAIN normalized_to_row
                       THEN /\ log' = Append(log, LogLine("Unlocatable", code, 0, 0))
                            /\ ws' = ws
                       ELSE /\ ws' = StampFoundOut(ws,
                                        normalized_to_row[normalized_code], loc)
                            /\ log' = Append(log, LogLine("Found", code,
                                             normalized_to_row[normalized_code], 0))
                    /\ loc_var' = loc
                    /\ UNCHANGED <<mode, disk, open, dialogs, report,
                                   normalized_asset_set, normalized_to_row,
                                   scanAlloc>>
          ELSE /\ ws' = AppendScanOutRow(ws, next_new_seq, code, loc)
               /\ next_new_seq' = next_new_seq + 1
               /\ new_items_count' = new_items_count + 1
               /\ normalized_asset_set' = normalized_asset_set \cup {normalized_code}
               /\ normalized_to_row' =
                     [k \in DOMAIN normalized_to_row \cup {normalized_code} |->
                        IF k = normalized_code THEN MaxRowOf(ws) + 1
                        ELSE normalized_to_row[k]]
               /\ scanned' = MarkScanned(scanned, normalized_code)
               /\ log' = Append(log, LogLine("New", code, MaxRowOf(ws) + 1,
                                             next_new_seq))
               /\ loc_var' = loc
               /\ UNCHANGED <<mode, disk, open, dialogs, report, next_dup_seq,
                              duplicate_count>>

\* the Finish button of scan_out.py
FinishButtonOut(ok) ==
    /\ mode = "scan_out"
    /\ open
    /\ Budget
    /\ save_and_close_out(ok)
    /\ UNCHANGED loc_var

\* the user picks or types a location in the location box
SetLocation(l) ==
    /\ mode = "scan_out"
    /\ open
    /\ loc_var' = l
    /\ UNCHANGED <<mode, ws, disk, open, log, dialogs, report, scanIndex,
                   scanAlloc, impVars>>

NextScan ==
    \/ SelectCancelled
    \/ LoadError
    \/ LoadScan
    \/ \E entry \in ScanEntries, ok \in BOOLEAN : handle_scan(entry, ok)
    \/ \E ok \in BOOLEAN : FinishButton(ok)
    \/ \E entry \in ScanEntries, ok \in BOOLEAN : handle_scan_out(entry, ok)
    \/ \E ok \in BOOLEAN : FinishButtonOut(ok)
    \/ \E l \in Locations : SetLocation(l)
    \/ close_window

SpecScan == StartScan /\ [][NextScan]_vars

\* the characters of the codes the normalizer is run on
KeyChars == {"A", "z", "0", "7", "-"}

\* the codes of up to MaxKeyLen characters
ShortCodes == UNION {[1..n -> KeyChars] : n \in 0..MaxKeyLen}

S_12345678901 == <<"1","2","3","4","5","6","7","8","9","0","1">>

\* what is scanned: short codes, their keys, and a code of eleven digits
KeyEntries ==
    ShortCodes \cup {normalize(s) : s \in ShortCodes} \cup {S_12345678901, <<"z">> \o S_12345678901}

\* a scan-in session on an empty sheet or on a sheet with one "N/A" row
StartKeys ==
    /\ mode = "scan_in"
    /\ disk \in {<<>>, <<ScanRowPool[3]>>}
    /\ Unloaded

\* the first scan of the session
FirstScan == \E entry \in KeyEntries : log = <<>> /\ handle_scan(entry, TRUE)

NextKeys == LoadScan \/ FirstScan

SpecKeys == StartKeys /\ [][NextKeys]_vars


(***************************************************************************)
(* HR import: what run_import_inventory builds at load.                    *)
(***************************************************************************)
\* original_A_values: row -> int(str(A)), for the rows where it parses
BuildOriginalA(w) ==
    [row_num \in {j + 1 : j \in {i \in 1..Len(w) : IsIntCode(w[i][ColA])}} |->
        IntCode(CellAt(w, row_num, ColA))]

\* the (asset key, serial key) pair of a row of the existing sheet
PairOf(row) == <<AssetNorm(row[ColC]), normalize_serial(row[ColO])>>

\* if asset_norm or serial_norm: the pair goes into existing_map
Indexable(pair) == pair[1] # <<>> \/ pair[2] # <<>>

\* a code of the 50xxx band
Is50xxx(a_val) == NewFloor <= a_val /\ a_val < DupFloor

\* a table in which the first row entered stays
LastRow_FirstWins(rows) == CHOOSE x \in rows : \A y \in rows : x <= y

\* the last of a non-empty set of row numbers: a later row overwrites the entry
LastRow(rows) == CHOOSE x \in rows : \A y \in rows : y <= x

\* existing_map: pair -> row
BuildExistingMap(w) ==
    LET rows == {i + 1 : i \in {j \in 1..Len(w) : Indexable(PairOf(w[j]))}}
    IN [pair \in {PairOf(w[x - 1]) : x \in rows} |->
          LastRow({x \in rows : PairOf(w[x - 1]) = pair})]

\* serial_to_50xxx_row: serial key -> 50xxx row, for non-empty serial keys
BuildSerialMap(w) ==
    LET rows == {i + 1 : i \in {j \in 1..Len(w) :
                    /\ IsIntCode(w[j][ColA])
                    /\ Is50xxx(IntCode(w[j][ColA]))
                    /\ normalize_serial(w[j][ColO]) # <<>>}}
    IN [serial \in {normalize_serial(w[x - 1][ColO]) : x \in rows} |->
          LastRow({x \in rows : normalize_serial(w[x - 1][ColO]) = serial})]

\* a variant that starts the run with no number marked as used
BuildUsed50xxx_Empty(w) == {}

\* used_50xxx at load
BuildUsed50xxx(w) ==
    {IntCode(w[i][ColA]) : i \in {j \in 1..Len(w) :
        IsIntCode(w[j][ColA]) /\ Is50xxx(IntCode(w[j][ColA]))}}

(***************************************************************************)
(* HR import: the sheets the bounded runs draw from.                       *)
(***************************************************************************)
S_sn_1 == <<"s","n","-","1">>
S_SN_1 == <<"S","N","-","1"," ">>
S_sn_42 == <<"s","n","-","4","2">>
S_SN_42 == <<"S","N","-","4","2">>
S_sp_sn_42 == <<" ","s","n","-","4","2">>
S_X5 == <<"X","5">>
S_x_5 == <<"x","-","5">>
S_In == <<"I","n">>

\* a row of the existing sheet: code, display name, identifier, serial
ExistingRow(a, b, c, o) ==
    [BlankRow EXCEPT ![ColA] = a, ![2] = StrCell(b), ![ColC] = c, ![ColO] = o,
                     ![ColX] = StrCell(S_In), ![ColZ] = Earlier]

\* rows an existing sheet may hold at load, in sorted order
ExistingRowPool ==
    << ExistingRow(IntCell(10), <<"e","1">>, StrCell(S_AB000123), StrCell(S_sn_1)),
       ExistingRow(IntCell(20), <<"e","2">>, StrCell(S_NA), None),
       ExistingRow(IntCell(30), <<"e","3">>, StrCell(S_ab_000123), StrCell(S_SN_1)),
       ExistingRow(IntCell(50000), <<"e","4">>, StrCell(S_X5), StrCell(S_sn_42)),
       ExistingRow(IntCell(50002), <<"e","5">>, StrCell(S_Y6), StrCell(S_sp_sn_42)),
       ExistingRow(IntCell(51000), <<"e","6">>, StrCell(S_ab_000123), None),
       ExistingRow(None, <<"e","7">>, None, None) >>

ExistingSheets == SheetsOf(ExistingRowPool, MaxRows)

\* a row of the HR export, width columns wide: B = identifier, N = serial
ImportRow(width, a, b, n) ==
    [c \in 1..width |->
        IF c = 1 THEN a
        ELSE IF c = NewColB THEN b
        ELSE IF c = NewColN THEN n
        ELSE IF c >= 23 THEN StrCell(S_In)
        ELSE None]

ImportRowPool(width) ==
    << ImportRow(width, IntCell(1), StrCell(S_ab_000123), StrCell(S_SN_1)),
       ImportRow(width, IntCell(2), StrCell(S_x_5), StrCell(S_SN_42)),
       ImportRow(width, None, None, None),
       ImportRow(width, IntCell(4), StrCell(S_zz), None),
       ImportRow(width, IntCell(5), StrCell(S_Q9), StrCell(S_SN_42)) >>

\* ws_new.max_column of the exports drawn
NewWidths == {NewColN, ExistingMaxCol}

ImportSheets(width) ==
    {[i \in DOMAIN f |-> ImportRowPool(width)[f[i]]] :
        f \in UNION {[1..n -> 1..Len(ImportRowPool(width))] : n \in 0..MaxImport}}

\* the run of the serial-rejoin scenario: a 50005 row with serial "sn-42", and
\* an export whose seventh non-blank row carries serial "SN-42"
RejoinExisting ==
    << ExistingRow(IntCell(10), <<"e","1">>, StrCell(S_AB000123), StrCell(S_sn_1)),
       ExistingRow(IntCell(50005), <<"e","8">>, StrCell(S_Y6), StrCell(S_sn_42)) >>

S_y_6 == <<"y","-","6">>

\* the export's last row: serial "SN-42" under an identifier no row carries,
\* under the identifier of the 50005 row, or with an empty identifier cell
RejoinLastRows(width) ==
    {ImportRowPool(width)[5],
     ImportRow(width, IntCell(6), StrCell(S_y_6), StrCell(S_SN_42)),
     ImportRow(width, IntCell(6), None, StrCell(S_SN_42))}

RejoinImports(width) ==
    {[i \in 1..8 |->
        IF i = 8 THEN last
        ELSE ImportRowPool(width)[IF i = 3 THEN 3 ELSE IF i \in {1, 5} THEN 1 ELSE 4]] :
     last \in RejoinLastRows(width)}

\* a sheet loaded with the Pending-removal codes 50000 and 50002 in use
GapExisting ==
    << ExistingRowPool[1], ExistingRowPool[4], ExistingRowPool[5] >>

S_other_equipment == <<"o","t","h","e","r"," ","e","q","u","i","p","m","e","n","t">>
S_X_1 == <<"X","-","1">>
S_sp_X_1_sp == <<" ","X","-","1"," ">>
S_x_1 == <<"x","-","1">>
S_n_a == <<"n","/","a">>
S_Other_Equipment == <<"O","t","h","e","r"," ","E","q","u","i","p","m","e","n","t">>

\* the identifier columns of the sheets with repeated Asset Ids
RepeatedAssets ==
    { <<StrCell(S_X_1), StrCell(S_sp_X_1_sp), None>>,
      <<StrCell(S_X_1), StrCell(S_x_1), StrCell(S_blank)>>,
      <<StrCell(S_X_1), StrCell(S_X_1), StrCell(<<>>)>>,
      <<StrCell(S_n_a), StrCell(S_NA), StrCell(S_X_1)>>,
      <<StrCell(S_Other_Equipment), StrCell(S_other_equipment), StrCell(S_sp_X_1_sp)>> }

\* sheets loaded with Asset Ids that repeat, vary in case or blanks, or are
\* placeholders
RepeatedExisting ==
    {[i \in 1..3 |-> ExistingRow(IntCell(i), <<"e", DigitChars[i + 1]>>, assets[i], None)] :
        assets \in RepeatedAssets}

\* the exports a run on the sheet w may be given
ExportsFor(w, width) ==
    IF w = RejoinExisting THEN RejoinImports(width)
    ELSE IF w \in RepeatedExisting THEN {<<>>, <<ImportRowPool(width)[4]>>}
    ELSE ImportSheets(width)

\* the stage after the loop over the import rows
AfterRows(orig_max_row) == IF orig_max_row >= 2 THEN "post" ELSE "sort"


(***************************************************************************)
(* HR import: the steps of run_import_inventory.                           *)
(***************************************************************************)
\* a variant that takes no row of the export for blank
BlankImport_Never(asset_norm, serial_norm) == FALSE

\* the import row is blank: if not asset_norm and not serial_norm
BlankImport(asset_norm, serial_norm) == asset_norm = <<>> /\ serial_norm = <<>>

\* an itemized line of the summary
Item(row_num, code) == [row |-> row_num, code |-> code]

\* 1) exact match: A of the matched row = import_index
WriteIndex(w, row_num, index) == SetCell(w, row_num, ColA, IntCell(index))

\* a variant that never counts a matched row as added from 50xxx
Was50xxx_Never(orig, row_num) == FALSE

\* whether the matched row counts as added from 50xxx
Was50xxx(orig, row_num) == row_num \in DOMAIN orig /\ Is50xxx(orig[row_num])

\* a variant of the serial-only match that leaves the Asset Id of the row alone
RejoinBySerial_KeepsAsset(w, row_num, index, asset_val) ==
    SetCell(w, row_num, ColA, IntCell(index))

\* 2) serial-only match: A = import_index, C = the Asset Id of the export
RejoinBySerial(w, row_num, index, asset_val) ==
    SetCell(SetCell(w, row_num, ColA, IntCell(index)), row_num, ColC,
            WriteValue(CellAt(w, row_num, ColC), asset_val))

\* max_copy_cols
MaxCopyCols(newcols, existingcols) ==
    IF newcols < existingcols - 1 THEN newcols ELSE existingcols - 1

\* a variant that copies the export's columns without the shift
ShiftedColumn_None(c) == c

\* the column of the existing sheet that column c of the export lands in
ShiftedColumn(c) == c + 1

\* 3) brand new: the row appended below the last, cleared, A = import_index,
\* the export's columns shifted one to the right, X / Y / Z / AA = ""
BrandNewRow(new_row, index, newcols) ==
    LET copied == [c \in 1..ExistingMaxCol |->
                     IF c = ColA THEN IntCell(index)
                     ELSE IF \E n \in 1..MaxCopyCols(newcols, ExistingMaxCol) :
                                ShiftedColumn(n) = c
                     THEN new_row[CHOOSE n \in 1..MaxCopyCols(newcols, ExistingMaxCol) :
                                     ShiftedColumn(n) = c]
                     ELSE None]
    IN [c \in 1..ExistingMaxCol |->
           IF c \in {ColX, ColY, ColZ, ColAA} THEN StrCell(<<>>) ELSE copied[c]]

\* one pass of the loop over the rows of the export
ImportRowStep ==
    /\ mode = "import"
    /\ pc = "rows"
    /\ LET new_row == ws_new[r - 1]
           asset_val == new_row[NewColB]
           serial_val == IF NewColN <= new_max_col THEN new_row[NewColN] ELSE None
           asset_norm == AssetNorm(asset_val)
           serial_norm == normalize_serial(serial_val)
           key == <<asset_norm, serial_norm>>
           index == import_index + 1
       IN IF BlankImport(asset_norm, serial_norm)
          THEN UNCHANGED <<ws, import_index, matched_existing_rows, impCounts,
                           impItems>>
          ELSE /\ import_index' = index
               /\ IF key \in DOMAIN existing_map
                  THEN LET existing_row == existing_map[key]
                       IN /\ ws' = WriteIndex(ws, existing_row, index)
                          /\ matched_existing_rows' =
                                matched_existing_rows \cup {existing_row}
                          /\ IF Was50xxx(original_A_values, existing_row)
                             THEN /\ added_from_50xxx_count' = added_from_50xxx_count + 1
                                  /\ added_from_50xxx_items' =
                                        Append(added_from_50xxx_items,
                                               Item(existing_row, index))
                                  /\ UNCHANGED matched_regular_count
                             ELSE /\ matched_regular_count' = matched_regular_count + 1
                                  /\ UNCHANGED <<added_from_50xxx_count,
                                                 added_from_50xxx_items>>
                          /\ UNCHANGED <<brand_new_count, brand_new_items,
                                         removed_count, removed_items>>
                  ELSE IF serial_norm \in DOMAIN serial_to_50xxx_row
                  THEN LET serial_row == serial_to_50xxx_row[serial_norm]
                       IN /\ ws' = RejoinBySerial(ws, serial_row, index, asset_val)
                          /\ matched_existing_rows' =
                                matched_existing_rows \cup {serial_row}
                          /\ added_from_50xxx_count' = added_from_50xxx_count + 1
                          /\ added_from_50xxx_items' =
                                Append(added_from_50xxx_items, Item(serial_row, index))
                          /\ UNCHANGED <<matched_regular_count, brand_new_count,
                                         brand_new_items, removed_count,
                                         removed_items>>
                  ELSE /\ ws' = Append(ws, BrandNewRow(new_row, index, new_max_col))
                       /\ brand_new_count' = brand_new_count + 1
                       /\ brand_new_items' =
                             Append(brand_new_items, Item(MaxRowOf(ws) + 1, index))
                       /\ UNCHANGED <<matched_existing_rows, matched_regular_count,
                                      added_from_50xxx_count, added_from_50xxx_items,
                                      removed_count, removed_items>>
    /\ IF r < MaxRowOf(ws_new)
       THEN r' = r + 1 /\ pc' = pc
       ELSE r' = 2 /\ pc' = AfterRows(original_max_row)
    /\ UNCHANGED <<mode, disk, open, dialogs, report, scanVars, ws_new,
                   new_max_col, impIndex, used_50xxx, next_50xxx, dup_groups>>

\* a variant that hands out the number above the highest one in use
NextFree_NoGap(next, used) ==
    LET S == used \cup {next - 1}
    IN (CHOOSE m \in S : \A n \in S : n <= m) + 1

RECURSIVE NextFree(_, _)
\* get_next_50xxx: the first number from next on that is not in used
NextFree(next, used) == IF next \in used THEN NextFree(next + 1, used) ELSE next

\* a variant of the post-pass that re-codes a row of any band
Dropped_AnyBand(matched, w, row_num) ==
    /\ row_num \notin matched
    /\ IsIntCode(CellAt(w, row_num, ColA))

\* a variant of the post-pass that does not skip the matched rows
Dropped_IgnoresMatched(matched, w, row_num) ==
    /\ IsIntCode(CellAt(w, row_num, ColA))
    /\ IntCode(CellAt(w, row_num, ColA)) < NewFloor

\* whether the post-pass re-codes a row: not matched, A an integer below 50000
Dropped(matched, w, row_num) ==
    /\ row_num \notin matched
    /\ IsIntCode(CellAt(w, row_num, ColA))
    /\ IntCode(CellAt(w, row_num, ColA)) < NewFloor

\* one pass of the loop over the original rows, after the export is processed
PostPassStep ==
    /\ mode = "import"
    /\ pc = "post"
    /\ IF Dropped(matched_existing_rows, ws, r)
       THEN LET new_50 == NextFree(next_50xxx, used_50xxx)
            IN /\ used_50xxx' = used_50xxx \cup {new_50}
               /\ next_50xxx' = new_50 + 1
               /\ ws' = SetCell(ws, r, ColA, IntCell(new_50))
               /\ removed_count' = removed_count + 1
               /\ removed_items' = Append(removed_items, Item(r, new_50))
       ELSE UNCHANGED <<used_50xxx, next_50xxx, ws, removed_count, removed_items>>
    /\ IF r < original_max_row
       THEN r' = r + 1 /\ pc' = pc
       ELSE r' = r /\ pc' = "sort"
    /\ UNCHANGED <<mode, disk, open, dialogs, report, scanVars, ws_new,
                   new_max_col, impIndex, matched_existing_rows, import_index,
                   matched_regular_count, added_from_50xxx_count, brand_new_count,
                   brand_new_items, added_from_50xxx_items, dup_groups>>

\* sort_worksheet_by_column_a(ws_existing), then the hidden-column styling
SortStep ==
    /\ mode = "import"
    /\ pc = "sort"
    /\ ws' = sort_worksheet_by_column_a(ws)
    /\ pc' = "dups"
    /\ UNCHANGED <<mode, disk, open, dialogs, report, scanVars, ws_new,
                   new_max_col, r, impIndex, matched_existing_rows, used_50xxx,
                   next_50xxx, import_index, impCounts, impItems, dup_groups>>

\* raw_str without the strip()
RawAsset_Untrimmed(cell) == PyStr(cell)

\* raw_str: str(raw_asset).strip()
RawAsset(cell) == Strip(PyStr(cell))

\* rows the duplicate check passes over: None, blank, "N/A", "Other Equipment"
IgnoredAsset(cell) ==
    \/ cell.k = "none"
    \/ RawAsset(cell) = <<>>
    \/ Upper(RawAsset(cell)) = S_NA
    \/ Lower(RawAsset(cell)) = S_other_equipment

\* asset_map[raw_str]: the rows that carry raw_str, in row order
RowsOfAsset(w, raw_str) ==
    SelectSeq([i \in 1..Len(w) |-> i + 1],
              LAMBDA row_num : /\ ~IgnoredAsset(w[row_num - 1][ColC])
                               /\ RawAsset(w[row_num - 1][ColC]) = raw_str)

RECURSIVE DupGroups(_, _)
\* dup_groups: the assets of more than one row, in the order they first appear
DupGroups(w, n) ==
    IF n = 0 THEN <<>>
    ELSE LET cell == w[n][ColC]
             rows == RowsOfAsset(w, RawAsset(cell))
         IN IF ~IgnoredAsset(cell) /\ Len(rows) > 1 /\ rows[1] = n + 1
            THEN Append(DupGroups(w, n - 1), [asset |-> RawAsset(cell), rows |-> rows])
            ELSE DupGroups(w, n - 1)

\* the duplicate Asset Id check
DupCheckStep ==
    /\ mode = "import"
    /\ pc = "dups"
    /\ dup_groups' = DupGroups(ws, Len(ws))
    /\ pc' = "save"
    /\ UNCHANGED <<mode, ws, disk, open, dialogs, report, scanVars, ws_new,
                   new_max_col, r, impIndex, matched_existing_rows, used_50xxx,
                   next_50xxx, import_index, impCounts, impItems>>

\* wb_existing.save(existing_path) and the summary; ok: whether the save succeeds
SaveStep(ok) ==
    /\ mode = "import"
    /\ pc = "save"
    /\ disk' = SavedDisk(ws, disk, ok)
    /\ dialogs' = Append(dialogs, IF ok THEN "Import complete" ELSE "Save error")
    /\ report' = IF ok THEN <<matched_regular_count, added_from_50xxx_count,
                              brand_new_count, removed_count>>
                 ELSE report
    /\ open' = FALSE
    /\ pc' = "done"
    /\ UNCHANGED <<mode, ws, scanVars, ws_new, new_max_col, r, impIndex,
                   matched_existing_rows, used_50xxx, next_50xxx, import_index,
                   impCounts, impItems, dup_groups>>

\* the import program is started on a workbook
StartImport ==
    /\ mode = "import"
    /\ disk \in ExistingSheets \cup {RejoinExisting, GapExisting} \cup RepeatedExisting
    /\ Unloaded

\* both workbooks are read and the lookup tables are built
LoadImport ==
    /\ pc = "select"
    /\ mode = "import"
    /\ \E width \in NewWidths :
          /\ new_max_col' = width
          /\ ws_new' \in ExportsFor(disk, width)
    /\ ws' = disk
    /\ open' = TRUE
    /\ existing_map' = BuildExistingMap(disk)
    /\ original_max_row' = MaxRowOf(disk)
    /\ original_A_values' = BuildOriginalA(disk)
    /\ serial_to_50xxx_row' = BuildSerialMap(disk)
    /\ used_50xxx' = BuildUsed50xxx(disk)
    /\ next_50xxx' = NewFloor
    /\ r' = 2
    /\ pc' = IF Len(ws_new') >= 1 THEN "rows" ELSE AfterRows(MaxRowOf(disk))
    /\ UNCHANGED <<mode, disk, dialogs, report, scanVars, matched_existing_rows,
                   import_index, impCounts, impItems, dup_groups>>

NextImport ==
    \/ SelectCancelled
    \/ LoadError
    \/ LoadImport
    \/ ImportRowStep
    \/ PostPassStep
    \/ SortStep
    \/ DupCheckStep
    \/ \E ok \in BOOLEAN : SaveStep(ok)

SpecImport == StartImport /\ [][NextImport]_vars

(***************************************************************************)
(* The three programs together: a run is a scan-in session, a scan-out     *)
(* session or an HR import.                                                *)
(***************************************************************************)
Init == StartScan \/ StartImport

Next == NextScan \/ NextImport

Spec == Init /\ [][Next]_vars

(***************************************************************************)
(* Properties of the scan sessions.                                        *)
(***************************************************************************)
\* the strict-suffix key of a row's identifier, and the keys of a sheet
RowKey(row) == normalize(PandasStr(row[ColC]))
RowKeys(w) == {RowKey(w[i]) : i \in 1..Len(w)}

\* this step wrote one line to the log
Logged == Len(log') = Len(log) + 1
Line == log'[Len(log')]

\* the codes of a band that the rows of a sheet carry
BandCodes(w, floor, ceil) ==
    {IntCode(w[i][ColA]) : i \in {j \in 1..Len(w) :
        /\ IsIntCode(w[j][ColA])
        /\ floor <= IntCode(w[j][ColA])
        /\ IntCode(w[j][ColA]) < ceil}}

MaxOf(S) == CHOOSE m \in S : \A n \in S : n <= m

\* C1: a scan whose key is the key of a row of the sheet and is not yet in the
\* scanned set is classified Found: the key joins the scanned set, a row that
\* carries the key has last_scanned and last_verified set to today, no row is
\* appended and no sequence_code changes.
C1_FoundStampsTheMatchedRow ==
    [][ (Logged /\ normalize(Line.code) \in RowKeys(ws)
                /\ normalize(Line.code) \notin scanned)
        => /\ Line.cls = "Found"
           /\ normalize(Line.code) \in scanned'
           /\ Len(ws') = Len(ws)
           /\ \A i \in 1..Len(ws) : ws'[i][ColA] = ws[i][ColA]
           /\ \E i \in 1..Len(ws) :
                 /\ RowKey(ws[i]) = normalize(Line.code)
                 /\ ws'[i][ColZ] = today
                 /\ ws'[i][ColAA] = today ]_vars

\* C2: a scan whose key is in the inventory and already in the scanned set is
\* classified Duplicate: exactly one row is appended, with the raw code as
\* identifier, today's dates, and the code one greater than the largest
\* Duplicate-band code so far (51000 if none); no other row is modified.
C2_DuplicateTakesNextBandCode ==
    [][ (Logged /\ normalize(Line.code) \in RowKeys(ws)
                /\ normalize(Line.code) \in scanned)
        => /\ Line.cls = "Duplicate"
           /\ Len(ws') = Len(ws) + 1
           /\ \A i \in 1..Len(ws) : ws'[i] = ws[i]
           /\ ws'[Len(ws')][ColC] = StrCell(Line.code)
           /\ ws'[Len(ws')][ColZ] = today
           /\ ws'[Len(ws')][ColAA] = today
           /\ ws'[Len(ws')][ColA] =
                 IntCell(IF BandCodes(ws, DupFloor, DupCeil) = {} THEN DupFloor
                         ELSE MaxOf(BandCodes(ws, DupFloor, DupCeil)) + 1) ]_vars

Classified == {"Found", "New", "Duplicate"}

\* C3: in one session each key is classified Found or New at most once; once
\* it has been, it is in the inventory key set and the scanned set, and every
\* later event with that key is classified Duplicate.
C3_FirstThenDuplicate ==
    /\ \A i \in DOMAIN log : \A j \in DOMAIN log :
          (i < j /\ log[i].cls \in Classified
                 /\ normalize(log[i].code) = normalize(log[j].code))
          => log[j].cls = "Duplicate"
    /\ \A i \in DOMAIN log :
          log[i].cls \in {"Found", "New"}
          => /\ normalize(log[i].code) \in normalized_asset_set
             /\ normalize(log[i].code) \in scanned

C3_Witness ==
    /\ Len(log) = 3
    /\ log[1].cls \in {"Found", "New"}
    /\ log[2].cls = "Duplicate"
    /\ log[3].cls = "Duplicate"
    /\ normalize(log[1].code) = normalize(log[2].code)
    /\ normalize(log[1].code) = normalize(log[3].code)

\* the location the claim describes: the trimmed text, with "SHR: " put
\* before it unless it starts with "SHR:" in any case
TaggedLocation(raw) ==
    LET s == Strip(raw)
    IN IF Len(s) >= 4 /\ Upper(SubSeq(s, 1, 4)) = <<"S","H","R",":">> THEN s
       ELSE <<"S","H","R",":"," ">> \o s

\* C4: in scan-out mode every event classified Found, New or Duplicate writes
\* status "Out" and the normalized location on the row it touches or appends,
\* and normalizing a location twice gives what normalizing it once gives.
C4_ScanOutWritesStatusAndLocation ==
    [][ /\ (mode = "scan_out" /\ Logged /\ Line.cls \in Classified)
           => /\ ws'[Line.row - 1][ColX] = StrCell(<<"O","u","t">>)
              /\ ws'[Line.row - 1][ColI] = StrCell(TaggedLocation(loc_var))
              /\ loc_var' = TaggedLocation(loc_var)
        /\ normalize_shr_location(normalize_shr_location(loc_var'))
              = normalize_shr_location(loc_var') ]_vars

C4_Witness ==
    /\ mode = "scan_out"
    /\ Len(log) = 3
    /\ {log[i].cls : i \in DOMAIN log} = Classified
    /\ loc_var = <<"S","H","R",":"," ","1","2">>
    /\ \E i \in 1..Len(ws) : ws[i][ColI] = StrCell(loc_var)
    /\ \E i \in 1..Len(ws) : ws[i][ColI] = StrCell(S_shr_7) /\ ws[i][ColX].k = "str"

\* C5: in scan-out mode an event submitted while the location is empty is
\* turned away: nothing is logged, no cell is written, no row is appended, the
\* scanned set, the key set, the allocators and the counters are unchanged, and
\* the session stays open.
C5_EmptyLocationRejects ==
    [][ (mode = "scan_out" /\ Strip(loc_var) = <<>>)
        => /\ log' = log
           /\ (\E entry \in ScanEntries, ok \in BOOLEAN : handle_scan_out(entry, ok))
              => /\ UNCHANGED <<ws, disk, report, scanIndex, scanAlloc, loc_var>>
                 /\ open' ]_vars

C5_Witness ==
    /\ mode = "scan_out"
    /\ open
    /\ Len(dialogs) = 2
    /\ dialogs[1] = "Location required"
    /\ dialogs[2] = "Location required"
    /\ Len(log) = 1


(***************************************************************************)
(* Properties of the HR import.  Until the save, disk is the sheet as it   *)
(* was loaded: "before the run" and "existing row" are read off disk, and   *)
(* row p below is data row p (spreadsheet row p + 1).                       *)
(***************************************************************************)
\* the export row the loop is at, and its (identifier key, serial key) pair
ExportRow == ws_new[r - 1]
ExportPair == <<AssetNorm(ExportRow[NewColB]), normalize_serial(ExportRow[NewColN])>>

\* the loop is at an export row that is not blank
Accepted == mode = "import" /\ pc = "rows" /\ Indexable(ExportPair)

\* the code a row had before the run was in [50000,51000)
PreRunPending(p) ==
    /\ IsIntCode(disk[p][ColA])
    /\ NewFloor <= IntCode(disk[p][ColA])
    /\ IntCode(disk[p][ColA]) < DupFloor

\* the rows of the loaded sheet whose pair is the pair of the export row
ExactRows == {p \in 1..Len(disk) : PairOf(disk[p]) = ExportPair}

\* the pending rows of the loaded sheet whose serial key is that of the export row
SerialRows ==
    {p \in 1..Len(disk) : /\ PreRunPending(p)
                          /\ ExportPair[2] # <<>>
                          /\ normalize_serial(disk[p][ColO]) = ExportPair[2]}

\* the step changes no cell but those of row p in the columns cols
OnlyCells(p, cols) ==
    /\ Len(ws') = Len(ws)
    /\ \A i \in 1..Len(ws), c \in 1..ExistingMaxCol :
          (i # p \/ c \notin cols) => ws'[i][c] = ws[i][c]

\* how the step is classified, by the counter it raises
CountedUnchanged ==
    /\ matched_regular_count' = matched_regular_count + 1
    /\ added_from_50xxx_count' = added_from_50xxx_count
    /\ brand_new_count' = brand_new_count
CountedRejoined ==
    /\ added_from_50xxx_count' = added_from_50xxx_count + 1
    /\ matched_regular_count' = matched_regular_count
    /\ brand_new_count' = brand_new_count
CountedBrandNew ==
    /\ brand_new_count' = brand_new_count + 1
    /\ matched_regular_count' = matched_regular_count
    /\ added_from_50xxx_count' = added_from_50xxx_count

\* the rows the Removed-by-import list names
RemovedRows == {removed_items[i].row - 1 : i \in 1..Len(removed_items)}

\* C6: when the pair of a non-blank export row is the pair of a row of the
\* loaded sheet (the last such row, when several carry it), the step takes the
\* next import index, writes it to that row's code, changes no other cell and
\* appends nothing, and counts Rejoined if the row's code before the run was in
\* [50000,51000) and Unchanged otherwise.
C6_ExactMatchTakesImportIndex ==
    [][ (Accepted /\ ExactRows # {})
        => LET p == MaxOf(ExactRows)
           IN /\ import_index' = import_index + 1
              /\ ws'[p][ColA] = IntCell(import_index')
              /\ OnlyCells(p, {ColA})
              /\ p + 1 \in matched_existing_rows'
              /\ IF PreRunPending(p) THEN CountedRejoined ELSE CountedUnchanged ]_vars

\* an Active row and a Pending-removal row have both been matched exactly, by
\* export rows whose identifiers are written differently from the rows' own
C6_Witness ==
    /\ mode = "import"
    /\ Len(ws) = 2
    /\ Len(disk) = 2
    /\ disk[1][ColA] = IntCell(10)
    /\ disk[2][ColA] = IntCell(50000)
    /\ Len(ws_new) = 2
    /\ ws_new[1][NewColB] = StrCell(S_ab_000123)
    /\ ws_new[2][NewColB] = StrCell(S_x_5)
    /\ import_index = 2
    /\ matched_regular_count = 1
    /\ added_from_50xxx_count = 1
    /\ ws[1][ColA] = IntCell(1)
    /\ ws[2][ColA] = IntCell(2)
    /\ ws[1][ColC] = StrCell(S_AB000123)
    /\ ws[2][ColC] = StrCell(S_X5)

\* the step re-codes no row that an export row has matched
RemovedIsUnmatched ==
    removed_items' # removed_items
    => /\ Len(removed_items') = Len(removed_items) + 1
       /\ removed_items'[Len(removed_items')].row \notin matched_existing_rows

Unmatched == Accepted /\ ExactRows = {} /\ SerialRows = {}

\* C8: a non-blank export row that matches no row of the loaded sheet exactly
\* and no Pending-removal row by serial counts Brand-new: one row is appended
\* below the others, its code is the import index, column N of the export is in
\* column N + 1 (up to the sheet's last column), columns 24 to 27 hold the empty
\* string and the rest is empty; no row that was there is changed.
C8_BrandNewAppendsShiftedRow ==
    [][ Unmatched
        => /\ import_index' = import_index + 1
           /\ CountedBrandNew
           /\ Len(ws') = Len(ws) + 1
           /\ \A i \in 1..Len(ws) : ws'[i] = ws[i]
           /\ LET row == ws'[Len(ws')]
              IN /\ row[ColA] = IntCell(import_index')
                 /\ \A c \in 2..(ColX - 1) :
                       row[c] = IF c - 1 <= new_max_col THEN ExportRow[c - 1] ELSE None
                 /\ row[ColC] = ExportRow[NewColB]
                 /\ row[ColO] = ExportRow[NewColN]
                 /\ \A c \in ColX..ColAA : row[c] = StrCell(<<>>) ]_vars

\* a full-width export row with serial "SN-42" has been appended to a sheet
\* that holds rows: identifier and serial have moved one column to the right
\* and the export's values for columns 24 to 27 have not been taken over
C8_Witness ==
    /\ mode = "import"
    /\ new_max_col = ExistingMaxCol
    /\ brand_new_count = 1
    /\ Len(disk) >= 1
    /\ Len(ws) = Len(disk) + 1
    /\ ws_new[1][NewColB] = StrCell(S_Q9)
    /\ ws_new[1][ColX - 1] = StrCell(S_In)
    /\ ws[Len(ws)][ColA] = IntCell(1)
    /\ ws[Len(ws)][ColC] = StrCell(S_Q9)
    /\ ws[Len(ws)][ColO] = StrCell(S_SN_42)
    /\ ws[Len(ws)][ColX] = StrCell(<<>>)
    /\ ws[Len(ws)][ColAA] = StrCell(<<>>)

\* the post-pass is at spreadsheet row r, data row r - 1
AtPostPass == mode = "import" /\ pc = "post"

\* the row the post-pass is at is unmatched and its code is an integer below 50000
Eligible ==
    /\ r \notin matched_existing_rows
    /\ IsIntCode(ws[r - 1][ColA])
    /\ IntCode(ws[r - 1][ColA]) < NewFloor

\* a row carries an import index of the run
CarriesIndex(row) ==
    /\ row[ColA].k = "int"
    /\ 1 <= row[ColA].n
    /\ row[ColA].n <= import_index

\* C9: the post-pass re-codes the row it is at into [50000,51000) and lists it
\* as removed exactly when the row is unmatched and its code is an integer below
\* 50000, and otherwise leaves sheet and list alone; when it is through, every
\* listed row was in the loaded sheet, no unmatched row of the loaded sheet is
\* left with an integer code below 50000, and every matched row and every
\* appended row still carries an import index.
C9_PostPassReCodesUnmatchedActive ==
    /\ [][ AtPostPass
           => IF Eligible
              THEN /\ IsIntCode(ws'[r - 1][ColA])
                   /\ NewFloor <= IntCode(ws'[r - 1][ColA])
                   /\ IntCode(ws'[r - 1][ColA]) < DupFloor
                   /\ OnlyCells(r - 1, {ColA})
                   /\ removed_items' =
                         Append(removed_items, Item(r, IntCode(ws'[r - 1][ColA])))
                   /\ removed_count' = removed_count + 1
              ELSE /\ ws' = ws
                   /\ removed_items' = removed_items
                   /\ removed_count' = removed_count ]_vars
    /\ []( (mode = "import" /\ pc = "sort")
           => /\ RemovedRows \subseteq 1..Len(disk)
              /\ \A p \in 1..Len(ws) :
                    /\ (p <= Len(disk) /\ p + 1 \notin matched_existing_rows)
                          => ~(IsIntCode(ws[p][ColA]) /\ IntCode(ws[p][ColA]) < NewFloor)
                    /\ (p > Len(disk) \/ p + 1 \in matched_existing_rows)
                          => CarriesIndex(ws[p]) /\ p \notin RemovedRows )

\* the post-pass is through: it has re-coded an unmatched row, passed over a
\* matched one, and a Brand-new row stands below them
C9_Witness ==
    /\ mode = "import"
    /\ pc = "sort"
    /\ Len(disk) = 2
    /\ Len(ws) = 3
    /\ matched_existing_rows = {2}
    /\ removed_items = <<Item(3, NewFloor)>>
    /\ ws[1][ColA] = IntCell(1)
    /\ ws[2][ColA] = IntCell(NewFloor)
    /\ ws[3][ColA] = IntCell(2)
    /\ disk[2][ColA] = IntCell(20)

\* the pairs of the rows of the export
ExportPairs ==
    {<<AssetNorm(ws_new[i][NewColB]), normalize_serial(ws_new[i][NewColN])>> :
        i \in 1..Len(ws_new)}

\* the post-pass is at a row that was loaded with an integer code below 50000
\* and whose pair is the pair of no row of the export
AtDroppedRow ==
    /\ AtPostPass
    /\ IsIntCode(disk[r - 1][ColA])
    /\ IntCode(disk[r - 1][ColA]) < NewFloor
    /\ PairOf(disk[r - 1]) \notin ExportPairs

\* the smallest integer from 50000 on that is not in S
SmallestFree(S) ==
    CHOOSE n \in NewFloor..(NewFloor + Cardinality(S)) :
        n \notin S /\ \A m \in NewFloor..(n - 1) : m \in S

\* the integer codes the rows of a sheet carry
CodesOf(w) == {IntCode(w[i][ColA]) : i \in {j \in 1..Len(w) : IsIntCode(w[j][ColA])}}

\* the codes the post-pass has handed out so far
HandedOut == {removed_items[i].code : i \in 1..Len(removed_items)}

\* C10 (amended): a loaded row with an integer code below 50000 whose pair is
\* in no row of the export is re-coded by the post-pass to the smallest integer
\* from 50000 on that was not a [50000,51000) code of a row of the loaded sheet
\* and that the post-pass has not handed out before, and is listed as removed
\* under that code.
C10_DropTakesSmallestFreeOfLoad ==
    [][ AtDroppedRow
        => LET new_50 == SmallestFree(BandCodes(disk, NewFloor, DupFloor) \cup HandedOut)
           IN /\ ws'[r - 1][ColA] = IntCell(new_50)
              /\ OnlyCells(r - 1, {ColA})
              /\ removed_items' = Append(removed_items, Item(r, new_50))
              /\ removed_count' = removed_count + 1 ]_vars

\* a dropped row has taken 50000, the gap below the 50002 the sheet was loaded with
C10_Witness ==
    /\ mode = "import"
    /\ pc = "sort"
    /\ Len(disk) = 2
    /\ disk[1][ColA] = IntCell(10)
    /\ disk[2][ColA] = IntCell(50002)
    /\ ws[1][ColA] = IntCell(NewFloor)
    /\ ws[2][ColA] = IntCell(50002)
    /\ removed_items = <<Item(2, NewFloor)>>
    /\ PairOf(disk[1]) \notin ExportPairs
    /\ Len(ws_new) >= 1

\* C10 as stated: the dropped row is re-coded to the smallest integer from 50000
\* on that is not the code of any row of the sheet at the moment it is re-coded,
\* and is listed as removed.
C10_DropTakesSmallestUnusedNow ==
    [][ AtDroppedRow
        => LET new_50 == SmallestFree(CodesOf(ws))
           IN /\ ws'[r - 1][ColA] = IntCell(new_50)
              /\ removed_items' = Append(removed_items, Item(r, new_50))
              /\ removed_count' = removed_count + 1 ]_vars

\* the [50000,51000) codes of the rows of the sheet as loaded
LoadPending == BandCodes(disk, NewFloor, DupFloor)

\* the step takes a number from the gap-filling allocator
Allocates == AtPostPass /\ next_50xxx' # next_50xxx

\* C11: every number the gap-filling allocator returns is the smallest integer
\* from 50000 on that was not a [50000,51000) code of the loaded sheet and that
\* the allocator has not returned before in the run; it is the code written to
\* the row and listed; with 50000 and 50002 loaded the first number is 50001.
C11_GapReuse ==
    [][ Allocates
        => LET new_50 == next_50xxx' - 1
           IN /\ new_50 = SmallestFree(LoadPending \cup HandedOut)
              /\ ws'[r - 1][ColA] = IntCell(new_50)
              /\ removed_items' = Append(removed_items, Item(r, new_50))
              /\ (LoadPending = {50000, 50002} /\ HandedOut = {}) => new_50 = 50001 ]_vars

\* the sheet was loaded with 50000 and 50002, and the one dropped row took 50001
C11_Witness ==
    /\ mode = "import"
    /\ pc = "sort"
    /\ LoadPending = {50000, 50002}
    /\ removed_items = <<Item(2, 50001)>>
    /\ ws[1][ColA] = IntCell(50001)

\* the numbers the log shows as handed out to events of a class
SeqsOf(cls) == {log[i].seq : i \in {j \in 1..Len(log) : log[j].cls = cls}}

\* C12: a number handed out by the new-item stream, by the duplicate stream or
\* by the gap-filling allocator of the import differs from every number the
\* same allocator handed out before in the run and from every code of the
\* allocator's band in the sheet as loaded (disk, while the run goes on).
C12_NoDoubleAllocation ==
    [][ /\ (Logged /\ Line.cls = "New")
           => Line.seq \notin SeqsOf("New") \cup BandCodes(disk, NewFloor, DupFloor)
        /\ (Logged /\ Line.cls = "Duplicate")
           => Line.seq \notin SeqsOf("Duplicate") \cup BandCodes(disk, DupFloor, DupCeil)
        /\ Allocates
           => (next_50xxx' - 1) \notin HandedOut \cup LoadPending ]_vars

\* a session on a sheet that held codes of both bands has handed out a
\* new-item number and two duplicate numbers
C12_Witness ==
    /\ mode \in {"scan_in", "scan_out"}
    /\ Len(log) = 3
    /\ log[1].cls = "New"
    /\ log[2].cls = "Duplicate"
    /\ log[3].cls = "Duplicate"
    /\ BandCodes(disk, NewFloor, DupFloor) # {}
    /\ BandCodes(disk, DupFloor, DupCeil) # {}

\* row i of the export is not blank: its identifier key or its serial key is
\* not empty
NonBlank(i) ==
    Indexable(<<AssetNorm(ws_new[i][NewColB]), normalize_serial(ws_new[i][NewColN])>>)

\* how many of the first n rows of the export are not blank
NonBlankUpTo(n) == Cardinality({i \in 1..n : NonBlank(i)})

\* C13: the k-th non-blank row of the export is given import index k, which
\* the step writes to a row of the sheet; a blank row changes neither the
\* index nor the sheet nor any table, counter or list; and after the loop the
\* index is the number K of non-blank rows.
C13_ImportIndexCountsNonBlankRows ==
    /\ [][ (mode = "import" /\ pc = "rows")
           => IF NonBlank(r - 1)
              THEN /\ import_index' = import_index + 1
                   /\ import_index' = NonBlankUpTo(r - 1)
                   /\ \E p \in 1..Len(ws') :
                         /\ ws'[p][ColA] = IntCell(import_index')
                         /\ p <= Len(ws) => ws[p][ColA] # ws'[p][ColA]
              ELSE UNCHANGED <<ws, disk, import_index, matched_existing_rows,
                               impIndex, impCounts, impItems, used_50xxx,
                               next_50xxx, dialogs, report, dup_groups>> ]_vars
    /\ []( (mode = "import" /\ pc \in {"post", "sort", "dups", "save"})
           => import_index = NonBlankUpTo(Len(ws_new)) )

\* an export of eight rows, the third blank, has been processed: the last
\* row was given index 7, and a row of the sheet carries it
C13_Witness ==
    /\ mode = "import"
    /\ pc = "post"
    /\ Len(ws_new) = 8
    /\ ~NonBlank(3)
    /\ import_index = 7
    /\ \E p \in 1..Len(ws) : ws[p][ColA] = IntCell(7)

(***************************************************************************)
(* Properties of the sort stage and of the duplicate check.                *)
(***************************************************************************)
\* the step runs sort_worksheet_by_column_a: the sort stage of the import, or a
\* finish of a scan session
SortRuns ==
    \/ mode = "import" /\ pc = "sort"
    \/ /\ mode \in {"scan_in", "scan_out"}
       /\ Len(dialogs') = Len(dialogs) + 1
       /\ dialogs'[Len(dialogs')] \in {"Inventory updated", "Scan OUT updated", "Save error"}

\* integer-coded rows first and in non-decreasing order, the other rows last
Ordered(w) ==
    \A i, j \in 1..Len(w) :
        (i < j /\ IsIntCode(w[j][ColA]))
        => IsIntCode(w[i][ColA]) /\ IntCode(w[i][ColA]) <= IntCode(w[j][ColA])

\* two rows have the same sort key
SameKey(a, b) ==
    IF IsIntCode(a[ColA])
    THEN IsIntCode(b[ColA]) /\ IntCode(a[ColA]) = IntCode(b[ColA])
    ELSE ~IsIntCode(b[ColA])

\* the ways to arrange n rows
Arrangements(n) == {f \in [1..n -> 1..n] : \A i, j \in 1..n : f[i] = f[j] => i = j}

\* after is before with whole rows moved, rows of equal key in their old order
StableRearrangement(before, after) ==
    /\ Len(after) = Len(before)
    /\ \E f \in Arrangements(Len(before)) :
          /\ \A i \in 1..Len(before) : after[i] = before[f[i]]
          /\ \A i, j \in 1..Len(before) :
                (i < j /\ SameKey(after[i], after[j])) => f[i] < f[j]

\* C14: after the sort stage every integer-coded row precedes every row whose
\* code is not an integer, the integer codes are in non-decreasing order, and
\* the rows are the rows from before the sort, those of equal key in the
\* order they had.
C14_SortOrdersRowsStably ==
    [][ SortRuns => Ordered(ws') /\ StableRearrangement(ws, ws') ]_vars

\* the first part of C14 alone: after the sort stage the codes are in order
C14_OrderOnly == [][ SortRuns => Ordered(ws') ]_vars

\* the sheet in memory is not changed by the sort stage
SortFixes(w) == sort_worksheet_by_column_a(w) = w

\* C15: the sort stage leaves a sheet that is in order as it is, and applied to
\* any sheet S it yields a sheet that a second application leaves as it is:
\* sort(sort(S)) = sort(S).  S ranges over the sheets a run holds in memory.
C15_SortIdempotent ==
    /\ Ordered(ws) => SortFixes(ws)
    /\ SortFixes(sort_worksheet_by_column_a(ws))

\* the first part of C15 alone: a sheet in order is left as it is
C15_OrderedIsFixed == Ordered(ws) => SortFixes(ws)

(***************************************************************************)
(* Properties of the duplicate Asset Id check                              *)
(***************************************************************************)

\* the Asset Id of data row i, trimmed
Trimmed(i) == Strip(PyStr(ws[i][ColC]))

\* data row i has no Asset Id, or a placeholder in any casing
Placeholder(i) ==
    \/ ws[i][ColC] = None
    \/ Trimmed(i) = <<>>
    \/ Lower(Trimmed(i)) \in {S_n_a, S_other_equipment}

\* the spreadsheet rows a reported group lists
GroupRows(g) == {dup_groups'[g].rows[k] : k \in DOMAIN dup_groups'[g].rows}

\* the groups reported are the classes of equal key[i] among the rows that
\* carry an Asset Id
GroupedBy(key) ==
    LET counted == {i \in 1..Len(ws) : ~Placeholder(i)}
    IN /\ \A g \in DOMAIN dup_groups' :
            /\ Cardinality(GroupRows(g)) > 1
            /\ Len(dup_groups'[g].rows) = Cardinality(GroupRows(g))
            /\ \E i \in counted : GroupRows(g) = {j + 1 : j \in {j \in counted : key[i] = key[j]}}
       /\ \A g, h \in DOMAIN dup_groups' : g # h => GroupRows(g) \cap GroupRows(h) = {}
       /\ \A i, j \in counted :
            i # j /\ key[i] = key[j] => \E g \in DOMAIN dup_groups' : {i + 1, j + 1} \subseteq GroupRows(g)

\* the Asset Ids trimmed, and trimmed with the case folded
TrimmedKey == [i \in 1..Len(ws) |-> Trimmed(i)]

VariantKey == [i \in 1..Len(ws) |-> Lower(Trimmed(i))]

\* the rows whose Asset Id is "X-1" up to surrounding blanks
RowsOfX1 == {i \in 1..Len(ws) : Trimmed(i) = S_X_1}

LastDialog(d) == IF d = <<>> THEN "" ELSE d[Len(d)]

\* C17: the duplicate check changes no cell of the sheet and nothing else but
\* its own report; it runs on the sheet the sort stage left, only it leads to
\* the save, and a save that succeeds writes that sheet, cell for cell.
C17_DupCheckReadOnly ==
    [][ /\ (pc' = "dups" /\ pc # "dups") => ws' = sort_worksheet_by_column_a(ws)
        /\ pc = "dups" =>
              /\ ws' = ws
              /\ disk' = disk
              /\ pc' = "save"
              /\ UNCHANGED <<impIndex, matched_existing_rows, used_50xxx, next_50xxx,
                             import_index, impCounts, impItems, dialogs, report>>
        /\ pc' = "save" => pc = "dups"
        /\ pc = "save" =>
              /\ ws' = ws
              /\ disk' = IF LastDialog(dialogs') = "Import complete" THEN ws ELSE disk ]_vars

\* C17 witness: a run that reported a duplicate group has saved its sheet
C17_Witness ==
    /\ pc = "done"
    /\ dup_groups # <<>>
    /\ LastDialog(dialogs) = "Import complete"
    /\ disk = ws
    /\ \E i \in 1..Len(ws) : ws[i][ColA] \in {IntCell(1), IntCell(2)}

\* the dialogs that follow a save that succeeded, one per program
SaveDialogs == {"Inventory updated", "Scan OUT updated", "Import complete"}

\* the number of saves that succeeded so far
SavesDone == Cardinality({i \in DOMAIN dialogs : dialogs[i] \in SaveDialogs})

\* C18: in every run of every mode a save succeeds at most once; the step that
\* saves writes the sheet in memory to the workbook and ends the session, and
\* after it no step changes the sheet or anything else of the run.
C18_SaveOnceAndLast ==
    /\ [](SavesDone <= 1)
    /\ [][ /\ SavesDone = 0
           /\ SavesDone' = 1 => /\ disk' = ws'
                                /\ ~open'
                                /\ report' # <<>> ]_vars

\* C18 witness: a scan session was finished twice, the first save failed, the
\* second succeeded and closed the session with the scanned row on disk
C18_Witness ==
    /\ mode = "scan_in"
    /\ dialogs = <<"Save error", "Inventory updated">>
    /\ Len(log) = 1
    /\ ~open
    /\ disk = ws

\* the state a session works on: sheet, scanned set, row index, allocators
SessionState == <<ws, scanIndex, scanAlloc, log>>

\* a save has failed in this run
SaveFailed == \E i \in DOMAIN dialogs : dialogs[i] = "Save error"

\* C19 (as stated): once a save has failed the run is over: the session is
\* closed, no later step changes the sheet, the scanned set, the row index or
\* the allocators, and the workbook on disk is never written.
C19_SaveFailureEndsTheRun ==
    /\ [](SaveFailed => ~open)
    /\ [][ SaveFailed => /\ SessionState' = SessionState
                         /\ disk' = disk ]_vars

\* the part of C19 that the import keeps: after its save failed nothing moves
C19_ImportSaveFailureEndsTheRun ==
    [][ mode = "import" /\ SaveFailed => UNCHANGED vars ]_vars

\* a run that ended before a workbook was loaded
Aborted == pc = "done" /\ SavesDone = 0 /\ ~SaveFailed

\* C20: the workbook on disk changes in no step but a save that succeeds:
\* closing the session without finishing (Quit All, Escape, the close box),
\* whatever was scanned before, a cancelled file selection and a load error
\* leave it exactly as it was, and nothing follows an aborted start.
C20_AbandonCommitsNothing ==
    [][ /\ SavesDone' = SavesDone => disk' = disk
        /\ (open /\ ~open' /\ dialogs' = dialogs) =>
              UNCHANGED <<ws, disk, log, report, scanIndex, scanAlloc>>
        /\ (pc = "select" /\ pc' = "done") => /\ disk' = disk
                                              /\ ~open'
                                              /\ ws' = <<>>
                                              /\ Aborted'
        /\ ~Aborted ]_vars

\* C20 witness: a session that appended a row was closed without finishing and
\* the workbook on disk does not have the row
C20_Witness ==
    /\ mode \in {"scan_in", "scan_out"}
    /\ pc = "scan"
    /\ ~open
    /\ SavesDone = 0
    /\ Len(log) = 2
    /\ Len(ws) = Len(disk) + 1

(***************************************************************************)
(* Properties of the keys that carry no digits                             *)
(***************************************************************************)

\* no digit of s stands after its last letter: the strict-suffix rule
\* extracts nothing from s
NoKeyDigits(s) ==
    \A i \in DOMAIN s : IsDigit(s[i]) => \E j \in DOMAIN s : j > i /\ IsLetter(s[j])

\* C21 (as stated): a scanned code from which the strict-suffix rule extracts
\* no digit matches nothing: the scan is classified neither Found nor
\* Duplicate, whatever identifiers the rows of the sheet carry.
C21_NoDigitsMatchesNothing ==
    [][ (Logged /\ NoKeyDigits(Line.code)) => Line.cls \notin {"Found", "Duplicate"} ]_vars

\* the part of C21 that holds: on a sheet all of whose identifiers carry
\* digits, a scanned code without digits is classified New
C21_NoDigitsIsNewAmongDigitRows ==
    [][ (/\ Logged
         /\ NoKeyDigits(Line.code)
         /\ \A i \in 1..Len(disk) : ~NoKeyDigits(PandasStr(disk[i][ColC])))
        => Line.cls = "New" \/ (Line.cls = "Duplicate" /\ \E k \in DOMAIN log : log[k].code = Line.code) ]_vars

\* the export row's identifier yields no key digits, its serial is empty
ExportAssetEmpty ==
    ExportRow[NewColB] = None \/ NoKeyDigits(PyStr(ExportRow[NewColB]))

ExportSerialEmpty ==
    ExportRow[NewColN] = None \/ Strip(PyStr(ExportRow[NewColN])) = <<>>

\* the step matched the export row to a row of the loaded sheet on its pair
ExactMatchedStep ==
    /\ ExactRows # {}
    /\ MaxOf(ExactRows) + 1 \in matched_existing_rows'
    /\ ws'[MaxOf(ExactRows)][ColA] = IntCell(import_index')
    /\ Len(ws') = Len(ws)

\* C22 (as stated): an export row whose identifier yields no digits, or whose
\* serial is empty, is not matched on its pair to any row, and an export row
\* with an empty serial is not matched by serial either: it is Brand-new.
C22_EmptyKeysMatchNothing ==
    [][ Accepted => /\ (ExportAssetEmpty \/ ExportSerialEmpty) => ~ExactMatchedStep
                    /\ ExportSerialEmpty => CountedBrandNew ]_vars

\* the part of C22 that holds: an empty serial never gives a serial-only match
C22_EmptySerialGivesNoSerialMatch ==
    [][ (Accepted /\ ExportSerialEmpty /\ ExactRows = {}) => CountedBrandNew ]_vars

\* s is a string of digits
AllDigits(s) == \A i \in DOMAIN s : IsDigit(s[i])

\* C23: normalizing twice gives what normalizing once gives, for every scanned
\* code; the key is a string of at least ten digits; a code that is already a
\* key (ten digits) is its own key, and so is every key the session holds.
C23_NormalizeIdempotent ==
    /\ \A k \in DOMAIN log :
          LET x == log[k].code
          IN /\ normalize(normalize(x)) = normalize(x)
             /\ AllDigits(normalize(x))
             /\ Len(normalize(x)) >= NormWidth
             /\ (AllDigits(x) /\ Len(x) = NormWidth) => normalize(x) = x
    /\ \A key \in normalized_asset_set \cup scanned : normalize(key) = key

\* C23 witness: a code of ten digits, not all zero, was scanned and is its own
\* key in the scanned set
C23_Witness ==
    /\ Len(log) = 1
    /\ AllDigits(log[1].code)
    /\ Len(log[1].code) = NormWidth
    /\ \E i \in DOMAIN log[1].code : log[1].code[i] = "7"
    /\ log[1].code \in scanned

(***************************************************************************)
(* Properties of the sheet an import leaves                                *)
(***************************************************************************)

\* the code cell holds an integer of [50000,51000)
InPendingBand(cell) ==
    IsIntCode(cell) /\ NewFloor <= IntCode(cell) /\ IntCode(cell) < DupFloor

\* the sheet of the import is sorted and about to be saved
ImportSorted == mode = "import" /\ pc = "save"

\* row i of the sheet is row p of the sheet as loaded (the display name of a
\* row is never written, and no two rows of a loaded sheet share it)
SameRow(i, p) == ws[i][2] = disk[p][2]

\* the rows of the loaded sheet that no export row matched
UnmatchedBefore == {p \in 1..Len(disk) : p + 1 \notin matched_existing_rows}

Appended ==
    IF mode = "import" THEN brand_new_count
    ELSE Cardinality({k \in DOMAIN log : log[k].cls \in {"New", "Duplicate"}})

\* the columns of a loaded row that an event may write
EngineColumns ==
    IF mode = "import" THEN {ColA, ColC} ELSE {ColI, ColX, ColZ, ColAA}

\* the row new is the loaded row old, up to the cells an event may write
StillTheRow(old, new) ==
    \A c \in 1..ExistingMaxCol : c \notin EngineColumns => new[c] = old[c]

\* every row of the sheet before is a row of its own of the sheet after
AllStillPresent(before, after) ==
    \E f \in [1..Len(before) -> 1..Len(after)] :
        /\ \A p, q \in 1..Len(before) : p # q => f[p] # f[q]
        /\ \A p \in 1..Len(before) : StillTheRow(before[p], after[f[p]])

\* this step saves the sheet
Saves == SavesDone = 0 /\ SavesDone' = 1

\* the number of rows never goes down and is the number at load plus the rows
\* appended
RowCountKept ==
    /\ [][ Len(ws') >= Len(ws) ]_vars
    /\ []((pc # "select" /\ ~Aborted /\ SavesDone = 0) => Len(ws) = Len(disk) + Appended)

\* C25 (as stated): in every mode the number of data rows never decreases and
\* is the number at load plus the New and Duplicate (scan) or Brand-new
\* (import) events, and every row of the loaded sheet is a row of the sheet
\* that is saved.
C25_RowsNeverDeleted ==
    /\ RowCountKept
    /\ [][ Saves => AllStillPresent(disk, ws') ]_vars

\* the part of C25 that holds: the count
C25_RowCountOnly == RowCountKept

\* a sheet is loaded and the run is under way
Running == pc # "select" /\ ~Aborted

\* C26 (as the code has it): the sheet is put in order by the sort stage
\* only.  Every other step leaves each row where it is: it writes cells of
\* rows in place (dates, location, status; code and identifier in an import)
\* or appends one row below all others, whatever its code, so that between
\* events the codes need not be ascending.
C26_RowsStayInPlaceUntilSorted ==
    [][ (Running /\ ~SortRuns)
        => /\ Len(ws') \in {Len(ws), Len(ws) + 1}
           /\ \A i \in 1..Len(ws) : StillTheRow(ws[i], ws'[i])
           /\ mode # "import" => \A i \in 1..Len(ws) :
                 ws'[i][ColA] = ws[i][ColA] /\ ws'[i][ColC] = ws[i][ColC] ]_vars

\* C26 witness: between two events of an open scan session the New row with
\* code 50000 stands below the row with code 51000
C26_Witness ==
    /\ mode \in {"scan_in", "scan_out"}
    /\ open
    /\ dialogs = <<>>
    /\ Len(log) = 1
    /\ log[1].cls = "New"
    /\ Len(ws) = 2
    /\ ws[1][ColA] = IntCell(51000)
    /\ ws[2][ColA] = IntCell(50000)
    /\ ~Ordered(ws)

\* C26 (as stated): in every state of a run the rows are in ascending order of
\* their codes, rows without an integer code last
C26_AlwaysOrdered == Running => Ordered(ws)

\* C27 (as stated): whatever is saved is in order: integer-coded rows in
\* non-decreasing order of their codes, then the rows without an integer code.
C27_SavedSheetIsOrdered ==
    [][ Saves => Ordered(disk') ]_vars

\* the part of C27 that holds: what a scan session saves is what the sort
\* stage made of the sheet in that same step (for the import see C17)
C27_SavedSheetIsTheSortOutput ==
    [][ (Saves /\ mode # "import") => disk' = sort_worksheet_by_column_a(ws) ]_vars

(***************************************************************************)
(* Properties of the lookup tables of the import                           *)
(***************************************************************************)

\* the import is between load and save: disk is the sheet as loaded
ImportUnderWay == mode = "import" /\ pc \in {"rows", "post", "sort", "dups", "save"}

\* the rows of the loaded sheet with a code of [50000,51000) and serial key s
PendingWithSerial(s) ==
    {p \in 1..Len(disk) : PreRunPending(p) /\ normalize_serial(disk[p][ColO]) = s}

\* C28: the serial-only lookup holds the non-empty serial keys of the rows
\* whose code at load was in [50000,51000), each with the last such row; an
\* export row without exact match whose serial key is in the lookup is joined
\* to that last row, every time such an export row comes, and the other rows
\* with that serial are left alone; without such a row it is Brand-new.
C28_SerialTieBreak ==
    /\ [](ImportUnderWay =>
            /\ DOMAIN serial_to_50xxx_row =
                  {normalize_serial(disk[p][ColO]) : p \in {q \in 1..Len(disk) : PreRunPending(q)}}
                  \ {<<>>}
            /\ \A s \in DOMAIN serial_to_50xxx_row :
                  serial_to_50xxx_row[s] = MaxOf(PendingWithSerial(s)) + 1)
    /\ [][ (Accepted /\ ExactRows = {})
           => IF SerialRows = {} THEN CountedBrandNew
              ELSE /\ CountedRejoined
                   /\ ws'[MaxOf(SerialRows)][ColA] = IntCell(import_index')
                   /\ MaxOf(SerialRows) + 1 \in matched_existing_rows'
                   /\ \A p \in SerialRows \ {MaxOf(SerialRows)} : ws'[p] = ws[p] ]_vars

\* C28 witness: rows 2 and 3 were loaded with codes 50000 and 50002 and the
\* serial key "SN-42"; two export rows with that serial and another identifier
\* were both joined to row 3, row 2 was left alone
C28_Witness ==
    /\ mode = "import"
    /\ pc = "post"
    /\ Len(disk) = 2
    /\ disk[1][ColA] = IntCell(50000)
    /\ disk[2][ColA] = IntCell(50002)
    /\ PendingWithSerial(S_SN_42) = {1, 2}
    /\ import_index = 2
    /\ added_from_50xxx_count = 2
    /\ matched_existing_rows = {3}
    /\ ws[1] = disk[1]
    /\ ws[2][ColA] = IntCell(2)
    /\ ws[2][ColC] = StrCell(S_Q9)

\* an earlier export row of this run had the pair of the export row at hand
\* and was appended as Brand-new: no row of the loaded sheet has the pair or,
\* in [50000,51000), the serial
SeenBefore ==
    /\ Accepted
    /\ ExactRows = {}
    /\ SerialRows = {}
    /\ \E k \in 2..(r - 1) :
          <<AssetNorm(ws_new[k - 1][NewColB]), normalize_serial(ws_new[k - 1][NewColN])>>
             = ExportPair

\* C29 (as stated): an export row whose pair is that of a row appended as
\* Brand-new earlier in the run matches that row: no second row is appended.
C29_AppendedRowIsIndexed ==
    [][ SeenBefore => Len(ws') = Len(ws) /\ brand_new_count' = brand_new_count ]_vars

\* what the import does: the lookup is the one built at load, all run long
C29_LookupIsBuiltOnce ==
    [][ ImportUnderWay => existing_map' = existing_map ]_vars

(***************************************************************************)
(* Properties of the new-item stream of the scan sessions                  *)
(***************************************************************************)

\* M: the greatest code of [50000,51000) in the sheet as loaded, 49999 if none
LoadHighWater ==
    IF BandCodes(disk, NewFloor, DupFloor) = {} THEN NewFloor - 1
    ELSE MaxOf(BandCodes(disk, NewFloor, DupFloor))

\* the number of New events up to and including this step
NewEvents == Cardinality({k \in DOMAIN log' : log'[k].cls = "New"})

\* C30: the i-th New event of a scan session gets the code M + i, written to
\* the row it appends; gaps below M are not reused, and a step that is not a
\* New event leaves the stream where it is.
C30_NewStreamIsHighWaterMark ==
    [][ (mode \in {"scan_in", "scan_out"})
        => IF Logged /\ Line.cls = "New"
           THEN /\ Line.seq = LoadHighWater + NewEvents
                /\ ws'[Len(ws')][ColA] = IntCell(Line.seq)
                /\ Len(ws') = Len(ws) + 1
                /\ next_new_seq' = Line.seq + 1
           ELSE (Running => next_new_seq' = next_new_seq) ]_vars

\* C30 witness: on a sheet whose only code of the band is 50999, a New, a
\* Found and another New event gave the codes 51000 and 51001
C30_Witness ==
    /\ mode \in {"scan_in", "scan_out"}
    /\ BandCodes(disk, NewFloor, DupFloor) = {50999}
    /\ Len(log) = 3
    /\ log[1].cls = "New" /\ log[1].seq = 51000
    /\ log[2].cls = "Found"
    /\ log[3].cls = "New" /\ log[3].seq = 51001
    /\ ws[Len(ws)][ColA] = IntCell(51001)

(***************************************************************************)
(* Properties of the codes the allocators hand out                         *)
(***************************************************************************)

\* every row of the sheet has an integer code and no two rows share one
DistinctIntCodes(w) ==
    /\ \A i \in 1..Len(w) : IsIntCode(w[i][ColA])
    /\ \A i, j \in 1..Len(w) : i # j => IntCode(w[i][ColA]) # IntCode(w[j][ColA])

\* a scan session on a sheet that was loaded with pairwise distinct integer
\* codes and has not been saved
ScanOnDistinctCodes ==
    /\ mode \in {"scan_in", "scan_out"}
    /\ Running
    /\ SavesDone = 0
    /\ DistinctIntCodes(disk)

\* C31 (as stated): in a scan session that starts from pairwise distinct
\* integer codes, the codes of the rows stay pairwise distinct after any
\* sequence of Found, New and Duplicate events.
C31_ScanCodesStayDistinct == ScanOnDistinctCodes => DistinctIntCodes(ws)

\* the part of C31 that holds: the codes stay distinct as long as the new-item
\* stream has not run past 50999
C31_DistinctWhileNewStreamInBand ==
    (ScanOnDistinctCodes /\ next_new_seq <= DupFloor) => DistinctIntCodes(ws)

\* C32 (as stated): every code handed out lies in the band of its allocator:
\* New codes of a scan session and the codes of the import's post-pass in
\* [50000,51000), Duplicate codes of a scan session in [51000,52000).
C32_CodesStayInTheirBand ==
    [][ /\ (Logged /\ Line.cls = "New")
           => (NewFloor <= Line.seq /\ Line.seq < DupFloor)
        /\ (Logged /\ Line.cls = "Duplicate")
           => (DupFloor <= Line.seq /\ Line.seq < DupCeil)
        /\ Allocates
           => (NewFloor <= next_50xxx' - 1 /\ next_50xxx' - 1 < DupFloor) ]_vars

\* the part of C32 that holds: no code is below the floor of its band
C32_CodesAreNotBelowTheirBand ==
    [][ /\ (Logged /\ Line.cls = "New") => NewFloor <= Line.seq
        /\ (Logged /\ Line.cls = "Duplicate") => DupFloor <= Line.seq
        /\ Allocates => NewFloor <= next_50xxx' - 1 ]_vars

\* the rows of the sheet whose code is the integer k
RowsWithCode(k) == {i \in 1..Len(ws) : ws[i][ColA] = IntCell(k)}

\* the codes below 50000 are 1..import_index, each on one row
IndexesOnePerRow ==
    /\ \A k \in 1..import_index : Cardinality(RowsWithCode(k)) = 1
    /\ \A i \in 1..Len(ws) :
          (IsIntCode(ws[i][ColA]) /\ IntCode(ws[i][ColA]) < NewFloor)
          => IntCode(ws[i][ColA]) \in 1..import_index

\* the sheet was loaded with integer codes only
LoadedWithIntCodes == \A p \in 1..Len(disk) : IsIntCode(disk[p][ColA])

\* C33 (as stated): in the sheet an import saves, over a sheet loaded with
\* integer codes only, the codes below 50000 are exactly the import indexes
\* 1..K, each carried by exactly one row.
C33_ImportIndexesOnePerRow ==
    (ImportSorted /\ LoadedWithIntCodes) => IndexesOnePerRow

\* the part of C33 that holds: it is so whenever no row of the loaded sheet
\* was matched by two export rows
C33_OnePerRowUnlessMatchedTwice ==
    (/\ ImportSorted
     /\ LoadedWithIntCodes
     /\ Cardinality(matched_existing_rows) + brand_new_count = import_index)
    => IndexesOnePerRow

(***************************************************************************)
(* Properties of the key-to-row map of the scan sessions                   *)
(***************************************************************************)

\* every key of the map points at a row of the sheet whose identifier has
\* that key
IndexPointsAtItsRows ==
    \A key \in DOMAIN normalized_to_row :
        /\ normalized_to_row[key] - 1 \in 1..Len(ws)
        /\ RowKey(ws[normalized_to_row[key] - 1]) = key

\* C34 (as stated): as long as a scan session is open, also after a finish
\* whose save failed, every key of the key-to-row map points at a row whose
\* identifier normalizes to that key, and a Found event stamps such a row.
C34_RowIndexConsistent ==
    /\ []((mode \in {"scan_in", "scan_out"} /\ open) => IndexPointsAtItsRows)
    /\ [][ (Logged /\ Line.cls = "Found")
           => /\ RowKey(ws[Line.row - 1]) = normalize(Line.code)
              /\ ws'[Line.row - 1][ColZ] = today ]_vars

\* the part of C34 that holds: the map is right until a save has failed
C34_ConsistentUntilSaveFails ==
    (mode \in {"scan_in", "scan_out"} /\ open /\ ~SaveFailed) => IndexPointsAtItsRows

(***************************************************************************)
(* The sort stage as a rearrangement of rows                               *)
(***************************************************************************)

\* after holds the rows of before, each as many times as before holds it
SameRowsAs(before, after) ==
    /\ Len(after) = Len(before)
    /\ \E f \in Arrangements(Len(before)) :
          \A i \in 1..Len(before) : after[i] = before[f[i]]

\* C35 (as stated): the sort stage permutes whole rows: the rows after it are
\* the rows before it, none lost, duplicated or mixed with another, and the
\* display columns of a row stay with its code.
C35_SortPermutesWholeRows == [][ SortRuns => SameRowsAs(ws, ws') ]_vars

\* the write-back meets an empty value of the sorted list in a cell that holds
\* a value
EmptyOverValue(w) ==
    \E i \in 1..Len(w) : \E c \in 1..ExistingMaxCol :
        SortedRows(w)[i][c] = None /\ w[i][c] # None

\* the part of C35 that holds: rows are permuted whole when no empty value
\* is written over a cell that holds a value
C35_PermutesUnlessEmptyOverValue ==
    [][ (SortRuns /\ ~EmptyOverValue(ws)) => SameRowsAs(ws, ws') ]_vars

\* the sort stage never changes the number of rows
C35_RowCountKept == [][ SortRuns => Len(ws') = Len(ws) ]_vars

=============================================================================
